---- MODULE Spec2Model ----
(***************************************************************************)
(* A model of the pii-radar scan pipeline: plugin detectors run over the   *)
(* bytes of a file, the context analyzer upgrades matches to GDPR special  *)
(* categories, the scan engine maps the walked paths to FileResults in     *)
(* parallel and aggregates them, and ScanResults are filtered by           *)
(* confidence.  The HTTP adapter reuses the detector loop.                 *)
(*                                                                         *)
(* Text is a sequence of bytes.  An ASCII byte is a one-character string,  *)
(* "LF" and "CR" are the line separators, and "C3" "AB" are the two bytes  *)
(* of the character e-diaeresis.  Offsets are 0-based as in the source.    *)
(***************************************************************************)
EXTENDS Integers, Sequences, FiniteSets, TLC

\* ------------------------------------------------------------------ bounds
MaxFiles == 2          \* walked paths per directory scan
MaxMs == 1             \* largest wall-clock time of a directory scan
MaxEndpoints == 2      \* endpoints per scan_api_endpoints call

\* --------------------------------------------------------------- constants
window_size == 50

\* ------------------------------------------------------------ byte strings
Rep(n, b) == [i \in 1..n |-> b]

Min(a, b) == IF a < b THEN a ELSE b

saturating_sub(a, b) == IF a < b THEN 0 ELSE a - b

\* a UTF-8 continuation byte (10xxxxxx)
IsContinuation(b) == b \in {"AB"}

\* str::is_char_boundary: 0 and len are boundaries, an index past the end is
\* not, and any other index is one iff the byte there starts a character
is_char_boundary(text, i) ==
    \/ i = 0
    \/ i = Len(text)
    \/ (i < Len(text) /\ ~IsContinuation(text[i + 1]))

\* &text[a..b] succeeds iff a <= b <= len and both ends are char boundaries
SliceOk(text, a, b) ==
    /\ a <= b
    /\ b <= Len(text)
    /\ is_char_boundary(text, a)
    /\ is_char_boundary(text, b)

Slice(text, a, b) == SubSeq(text, a + 1, b)

\* the ASCII letters, lower case and upper case in the same order
LowerChars ==
    <<"a", "b", "c", "d", "e", "f", "g", "h", "i", "j", "k", "l", "m",
      "n", "o", "p", "q", "r", "s", "t", "u", "v", "w", "x", "y", "z">>

UpperChars ==
    <<"A", "B", "C", "D", "E", "F", "G", "H", "I", "J", "K", "L", "M",
      "N", "O", "P", "Q", "R", "S", "T", "U", "V", "W", "X", "Y", "Z">>

\* char::to_lowercase on the bytes of the model's alphabet
to_lowercase_byte(b) ==
    IF \E k \in 1..26 : UpperChars[k] = b
    THEN LowerChars[CHOOSE k \in 1..26 : UpperChars[k] = b]
    ELSE b

to_lowercase(s) == [i \in 1..Len(s) |-> to_lowercase_byte(s[i])]

\* str::contains
contains(hay, needle) ==
    \E i \in 0..(Len(hay) - Len(needle)) :
        SubSeq(hay, i + 1, i + Len(needle)) = needle

\* str::lines: split at LF, drop the LF, drop a CR that precedes the LF; a
\* trailing empty piece after the last LF is not a line
RECURSIVE LinesFrom(_, _)
LinesFrom(text, i) ==
    IF i > Len(text)
    THEN <<>>
    ELSE LET lfs == {k \in i..Len(text) : text[k] = "LF"}
             lf == IF lfs = {} THEN Len(text) + 1
                   ELSE CHOOSE k \in lfs : \A j \in lfs : k <= j
             cur == SubSeq(text, i, lf - 1)
             line == IF lf <= Len(text) /\ Len(cur) > 0 /\ cur[Len(cur)] = "CR"
                     THEN SubSeq(cur, 1, Len(cur) - 1)
                     ELSE cur
         IN  <<line>> \o LinesFrom(text, lf + 1)

lines(text) == LinesFrom(text, 1)

\* Regex::captures_iter for a literal pattern: the leftmost non-overlapping
\* occurrences, as 0-based start offsets
RECURSIVE FindFrom(_, _, _)
FindFrom(line, pat, i) ==
    IF i + Len(pat) > Len(line)
    THEN <<>>
    ELSE IF SubSeq(line, i + 1, i + Len(pat)) = pat
         THEN <<i>> \o FindFrom(line, pat, i + Len(pat))
         ELSE FindFrom(line, pat, i + 1)

captures_iter(pat, line) == FindFrom(line, pat, 0)

\* ---------------------------------------------------------------- ordering
ConfidenceRank(c) ==
    CASE c = "Low" -> 0 [] c = "Medium" -> 1 [] c = "High" -> 2

Confidences == {"Low", "Medium", "High"}

Severities == {"Low", "Medium", "High", "Critical"}

Regular == [type |-> "Regular"]

Special(c, kws) == [type |-> "Special", category |-> c, detected_keywords |-> kws]

NoContext == [type |-> "None"]

\* ------------------------------------------------------------------ masking
\* mask_value: at most 5 bytes are masked whole; otherwise min(3, len/3)
\* bytes are shown at the start and min(2, len/4) at the end
mask_value(value) ==
    LET len == Len(value)
        show_start == Min(3, len \div 3)
        show_end == Min(2, len \div 4)
        mask_len == len - show_start - show_end
    IN  IF len <= 5
        THEN Rep(len, "*")
        ELSE SubSeq(value, 1, show_start) \o Rep(mask_len, "*")
                 \o SubSeq(value, len - show_end + 1, len)

\* --------------------------------------------------------- context analyzer
\* The keyword tables of the source, restricted to the keywords that can be
\* written with the bytes the modelled texts use (x h i v d n a j l e m p,
\* digits and space): no other keyword of the source occurs in such a text.
\* "irisscan" is the biometric keyword of the texts analyze is called on.
MEDICAL_KEYWORDS_ALL == << <<"h", "i", "v">> >>

BIOMETRIC_KEYWORDS == << <<"d", "n", "a">>, <<"i", "r", "i", "s", "s", "c", "a", "n">> >>

GENETIC_KEYWORDS == << <<"d", "n", "a">> >>

CRIMINAL_KEYWORDS == << <<"j", "a", "i", "l">> >>

\* one keyword loop of analyze: the keywords of the list found in the window
KeywordHits(list, context_lower) ==
    SelectSeq(list, LAMBDA k : contains(context_lower, to_lowercase(k)))

\* analyze with the first category that has a hit kept
analyze_first_category_wins(text, match_start, match_end) ==
    LET before_start == saturating_sub(match_start, window_size)
        after_end == Min(match_end + window_size, Len(text))
    IN  IF ~SliceOk(text, before_start, match_start)
           \/ ~SliceOk(text, match_end, after_end)
        THEN [type |-> "Panic"]
        ELSE
        LET before == Slice(text, before_start, match_start)
            after == Slice(text, match_end, after_end)
            context_lower == to_lowercase(before \o after)
            med == KeywordHits(MEDICAL_KEYWORDS_ALL, context_lower)
            bio == KeywordHits(BIOMETRIC_KEYWORDS, context_lower)
            gen == KeywordHits(GENETIC_KEYWORDS, context_lower)
            cri == KeywordHits(CRIMINAL_KEYWORDS, context_lower)
            detected_keywords == med \o bio \o gen \o cri
            category == IF med # <<>> THEN "Medical"
                        ELSE IF bio # <<>> THEN "Biometric"
                        ELSE IF gen # <<>> THEN "Genetic"
                        ELSE IF cri # <<>> THEN "Criminal"
                        ELSE "None"
        IN  IF detected_keywords = <<>>
            THEN NoContext
            ELSE [type |-> "Some", before |-> before, after |-> after,
                  keywords |-> detected_keywords, category |-> category]

\* ContextAnalyzer::analyze.  The two slices panic when an end is not a char
\* boundary or lies outside the text.
analyze(text, match_start, match_end) ==
    LET before_start == saturating_sub(match_start, window_size)
        after_end == Min(match_end + window_size, Len(text))
    IN  IF ~SliceOk(text, before_start, match_start)
           \/ ~SliceOk(text, match_end, after_end)
        THEN [type |-> "Panic"]
        ELSE
        LET before == Slice(text, before_start, match_start)
            after == Slice(text, match_end, after_end)
            context_lower == to_lowercase(before \o after)
            med == KeywordHits(MEDICAL_KEYWORDS_ALL, context_lower)
            bio == KeywordHits(BIOMETRIC_KEYWORDS, context_lower)
            gen == KeywordHits(GENETIC_KEYWORDS, context_lower)
            cri == KeywordHits(CRIMINAL_KEYWORDS, context_lower)
            detected_keywords == med \o bio \o gen \o cri
            category == IF cri # <<>> THEN "Criminal"
                        ELSE IF gen # <<>> THEN "Genetic"
                        ELSE IF bio # <<>> THEN "Biometric"
                        ELSE IF med # <<>> THEN "Medical"
                        ELSE "None"
        IN  IF detected_keywords = <<>>
            THEN NoContext
            ELSE [type |-> "Some", before |-> before, after |-> after,
                  keywords |-> detected_keywords, category |-> category]

\* ---------------------------------------------------------- plugin detector
\* PluginDetector::validate_value with checksum = none and no allowed_chars.
\* An Option is a set with at most one element.
validate_value(d, value) ==
    /\ \A min \in d.min_length : ~(Len(value) < min)
    /\ \A max \in d.max_length : ~(Len(value) > max)

\* the matches of one line, in the order the pattern finds them
LineMatches(d, path, line, line_num, byte_offset) ==
    LET starts == captures_iter(d.pattern, line)
        all == [k \in 1..Len(starts) |->
                  [detector_id |-> d.id,
                   country |-> d.country,
                   value_masked |-> mask_value(d.pattern),
                   location |-> [file_path |-> path,
                                 line |-> line_num + 1,
                                 column |-> starts[k],
                                 start_byte |-> byte_offset + starts[k],
                                 end_byte |-> byte_offset + starts[k] + Len(d.pattern)],
                   confidence |-> d.confidence,
                   severity |-> d.severity,
                   context |-> NoContext,
                   gdpr_category |-> Regular]]
    IN  IF validate_value(d, d.pattern) THEN all ELSE <<>>

RECURSIVE DetectFrom(_, _, _, _, _)
DetectFrom(d, path, ls, n, byte_offset) ==
    IF n > Len(ls)
    THEN <<>>
    ELSE LineMatches(d, path, ls[n], n - 1, byte_offset)
             \o DetectFrom(d, path, ls, n + 1, byte_offset + Len(ls[n]) + 1)

\* PluginDetector::detect
detect(d, text, path) == DetectFrom(d, path, lines(text), 1, 0)

\* --------------------------------------------------------------- file system
E1 == <<"E", "1">>

P7 == <<"P", "7">>

M9 == <<"M", "9">>

Ok(text) == [ok |-> TRUE, text |-> text]

Err(msg) == [ok |-> FALSE, msg |-> msg]

InvalidUtf8 == Err(<<"stream did not contain valid UTF-8">>)

\* What the operating system, the extractors and the clock answer for each
\* path: extension, metadata length, the outcome of read_to_string, the
\* outcome of the extractor for the extension, and the milliseconds
\* start.elapsed() shows when the scan of the path ends.
FileSystem ==
    [p \in {"a.txt", "b.txt", "c.pdf", "d.PDF", "e", "f.txt", "g.txt"} |->
      CASE p = "a.txt" ->
             [ext |-> {"txt"}, metadata |-> {9}, elapsed_ms |-> 1,
              read |-> Ok(<<"x", " ">> \o E1 \o <<" ", "x", " ">> \o P7),
              extract |-> Err(<<"Unsupported file format">>)]
        [] p = "b.txt" ->
             [ext |-> {"txt"}, metadata |-> {14}, elapsed_ms |-> 2,
              read |-> Ok(<<"H", "I", "V", " ">> \o E1
                            \o <<" ", "j", "a", "i", "l", " ">> \o M9),
              extract |-> Err(<<"Unsupported file format">>)]
        [] p = "c.pdf" ->
             [ext |-> {"pdf"}, metadata |-> {40}, elapsed_ms |-> 3,
              read |-> InvalidUtf8,
              extract |-> Ok(<<"d", "n", "a", " ">> \o E1)]
        [] p = "d.PDF" ->
             [ext |-> {"PDF"}, metadata |-> {6}, elapsed_ms |-> 1,
              read |-> Ok(M9 \o <<" ", "d", "n", "a">>),
              extract |-> Err(<<"File is corrupted or invalid", ": ", "no xref">>)]
        [] p = "e" ->
             [ext |-> {}, metadata |-> {}, elapsed_ms |-> 0,
              read |-> Err(<<"Permission denied (os error 13)">>),
              extract |-> Err(<<"Unsupported file format">>)]
        [] p = "f.txt" ->
             [ext |-> {"txt"}, metadata |-> {56}, elapsed_ms |-> 1,
              read |-> Ok(Rep(3, "x") \o <<"C3", "AB">> \o Rep(49, "x") \o E1),
              extract |-> Err(<<"Unsupported file format">>)]
        [] OTHER ->
             [ext |-> {"txt"}, metadata |-> {7}, elapsed_ms |-> 0,
              read |-> Ok(<<"h", "i", "v", "CR", "LF">> \o M9),
              extract |-> Err(<<"Unsupported file format">>)]]

Paths == DOMAIN FileSystem

\* str::to_lowercase on the extensions of the file system
ext_to_lowercase(e) == IF e = "PDF" THEN "pdf" ELSE e

\* the plugin detectors a registry is built from
DetectorPool ==
    << [id |-> "emp_id", country |-> "nl", pattern |-> E1,
        severity |-> "High", confidence |-> "Medium",
        min_length |-> {}, max_length |-> {}],
       [id |-> "pass_no", country |-> "universal", pattern |-> P7,
        severity |-> "Low", confidence |-> "Low",
        min_length |-> {2}, max_length |-> {}],
       [id |-> "med_no", country |-> "gb", pattern |-> M9,
        severity |-> "Critical", confidence |-> "High",
        min_length |-> {}, max_length |-> {4}] >>

\* the extensions of PdfExtractor, DocxExtractor and XlsxExtractor
ExtractorExtensions == {"pdf", "docx", "xlsx", "xlsm", "xlsb", "xls"}

VARIABLES
    registry,            \* ScanEngine.registry: the detectors, in order
    enable_context,      \* ScanEngine.enable_context
    extractor_registry,  \* ScanEngine.extractor_registry: Option of extensions
    mainpc,              \* where the command is
    files,               \* scan_directory: the walked paths
    taskpc,              \* per walked path: position of its parallel task
    taskres,             \* per walked path: the FileResult of its task
    extracted_count,     \* scan_directory: AtomicUsize
    failure_count,       \* scan_directory: AtomicUsize
    matches_count,       \* scan_directory: AtomicUsize
    results,             \* the ScanResults last returned
    prev,                \* the ScanResults the last filter was applied to
    lastOp,              \* the operation that returned results
    lastConf,            \* the confidence of the last filter or API scan
    call                 \* the library function last called on its own:
                         \* its name, its arguments and what it returned

vars == <<registry, enable_context, extractor_registry, mainpc, files, taskpc,
          taskres, extracted_count, failure_count, matches_count, results,
          prev, lastOp, lastConf, call>>

\* ---------------------------------------------------------------- scan_file
\* ExtractorRegistry::get_by_extension
get_by_extension(extractors, extension) ==
    ext_to_lowercase(extension) \in extractors

\* scan_file, the text source: the extractor of the extension when there is
\* one, read_to_string otherwise
text_source(path) ==
    LET f == FileSystem[path]
    IN  IF /\ extractor_registry # {}
           /\ f.ext # {}
           /\ \E extractors \in extractor_registry : \E e \in f.ext :
                  get_by_extension(extractors, e)
        THEN IF f.extract.ok
             THEN f.extract
             ELSE Err(<<"Extraction failed", ": ">> \o f.extract.msg)
        ELSE IF f.read.ok
             THEN f.read
             ELSE Err(<<"Failed to read file", ": ">> \o f.read.msg)

\* apply_context attaching the category without raising the severity
apply_context_keeps_severity(content, m) ==
    LET context == analyze(content, m.location.start_byte, m.location.end_byte)
    IN  IF context.type = "Some"
        THEN IF context.category # "None"
             THEN [m EXCEPT !.gdpr_category =
                                Special(context.category, context.keywords),
                            !.context = context]
             ELSE [m EXCEPT !.context = context]
        ELSE m

\* apply_context building the special category without the keywords
apply_context_drops_keywords(content, m) ==
    LET context == analyze(content, m.location.start_byte, m.location.end_byte)
    IN  IF context.type = "Some"
        THEN IF context.category # "None"
             THEN [m EXCEPT !.severity = "Critical",
                            !.gdpr_category = Special(context.category, <<>>),
                            !.context = context]
             ELSE [m EXCEPT !.context = context]
        ELSE m

\* scan_file, the body of the context loop for one match
apply_context(content, m) ==
    LET context == analyze(content, m.location.start_byte, m.location.end_byte)
    IN  IF context.type = "Some"
        THEN IF context.category # "None"
             THEN [m EXCEPT !.severity = "Critical",
                            !.gdpr_category =
                                Special(context.category, context.keywords),
                            !.context = context]
             ELSE [m EXCEPT !.context = context]
        ELSE m

\* scan_file, one turn of the detector loop
detector_matches(d, content, path) ==
    LET matches == detect(d, content, path)
    IN  IF enable_context
        THEN [k \in 1..Len(matches) |-> apply_context(content, matches[k])]
        ELSE matches

RECURSIVE run_detectors(_, _, _)
run_detectors(n, content, path) ==
    IF n > Len(registry)
    THEN <<>>
    ELSE detector_matches(registry[n], content, path)
             \o run_detectors(n + 1, content, path)

\* scan_file panics when the context analysis of one of its matches does
scan_file_panics(path) ==
    LET src == text_source(path)
    IN  /\ src.ok
        /\ enable_context
        /\ \E n \in 1..Len(registry) :
             LET matches == detect(registry[n], src.text, path)
             IN  \E k \in 1..Len(matches) :
                   analyze(src.text, matches[k].location.start_byte,
                           matches[k].location.end_byte).type = "Panic"

NoError == [some |-> FALSE]

SomeError(msg) == [some |-> TRUE, msg |-> msg]

\* FileResult::new
FileResult_new(path) ==
    [path |-> path, matches |-> <<>>, size_bytes |-> 0, scan_time_ms |-> 0,
     error |-> NoError]

\* scan_file recording an extraction failure and then scanning the raw
\* bytes of the file instead of returning
scan_file_falls_back(path) ==
    LET f == FileSystem[path]
        result == [FileResult_new(path) EXCEPT
                     !.size_bytes = IF f.metadata = {} THEN 0
                                    ELSE CHOOSE n \in f.metadata : TRUE]
        src == text_source(path)
    IN  IF ~src.ok
        THEN IF f.read.ok
             THEN [result EXCEPT !.error = SomeError(src.msg),
                                 !.matches = run_detectors(1, f.read.text, path),
                                 !.scan_time_ms = f.elapsed_ms]
             ELSE [result EXCEPT !.error = SomeError(src.msg)]
        ELSE [result EXCEPT !.matches = run_detectors(1, src.text, path),
                            !.scan_time_ms = f.elapsed_ms]

\* ScanEngine::scan_file
scan_file(path) ==
    LET f == FileSystem[path]
        result == [FileResult_new(path) EXCEPT
                     !.size_bytes = IF f.metadata = {} THEN 0
                                    ELSE CHOOSE n \in f.metadata : TRUE]
        src == text_source(path)
    IN  IF ~src.ok
        THEN [result EXCEPT !.error = SomeError(src.msg)]
        ELSE [result EXCEPT !.matches = run_detectors(1, src.text, path),
                            !.scan_time_ms = f.elapsed_ms]

\* ------------------------------------------------------------- result model
RECURSIVE SumOver(_, _)
\* iter().map(f).sum() over a sequence, f given as the sequence of its values
SumOver(vals, n) == IF n = 0 THEN 0 ELSE vals[n] + SumOver(vals, n - 1)

Sum(vals) == SumOver(vals, Len(vals))

RECURSIVE FlattenFrom(_, _)
FlattenFrom(fs, n) ==
    IF n > Len(fs) THEN <<>> ELSE fs[n].matches \o FlattenFrom(fs, n + 1)

\* the matches the nested loop of aggregate visits, in order
AllMatches(fs) == FlattenFrom(fs, 1)

\* the value a counter reaches that is incremented on the matches satisfying P
CountMatches(ms, P(_)) == Len(SelectSeq(ms, P))

\* SeverityCounts::default
SeverityCounts_default == [low |-> 0, medium |-> 0, high |-> 0, critical |-> 0]

\* ScanResults::new, which is ScanResults::default
ScanResults_new ==
    [files |-> <<>>, total_files |-> 0, total_bytes |-> 0, total_time_ms |-> 0,
     total_matches |-> 0, by_severity |-> SeverityCounts_default,
     by_country |-> <<>>, extracted_files |-> 0, extraction_failures |-> 0]

\* the severity histogram the loop of aggregate builds
severity_histogram(ms) ==
    [low |-> CountMatches(ms, LAMBDA m : m.severity = "Low"),
     medium |-> CountMatches(ms, LAMBDA m : m.severity = "Medium"),
     high |-> CountMatches(ms, LAMBDA m : m.severity = "High"),
     critical |-> CountMatches(ms, LAMBDA m : m.severity = "Critical")]

\* the country histogram the loop of aggregate builds: a map whose keys are
\* the countries of the matches
country_histogram(ms) ==
    [c \in {ms[k].country : k \in 1..Len(ms)} |->
        CountMatches(ms, LAMBDA m : m.country = c)]

\* aggregate counting the files that have matches instead of the matches
aggregate_counts_files(fs) ==
    [files |-> fs,
     total_files |-> Len(fs),
     total_bytes |-> Sum([i \in 1..Len(fs) |-> fs[i].size_bytes]),
     total_time_ms |-> Sum([i \in 1..Len(fs) |-> fs[i].scan_time_ms]),
     total_matches |-> Sum([i \in 1..Len(fs) |->
                              IF fs[i].matches = <<>> THEN 0 ELSE 1]),
     by_severity |-> severity_histogram(AllMatches(fs)),
     by_country |-> country_histogram(AllMatches(fs)),
     extracted_files |-> 0,
     extraction_failures |-> 0]

\* ScanResults::aggregate
aggregate(fs) ==
    [files |-> fs,
     total_files |-> Len(fs),
     total_bytes |-> Sum([i \in 1..Len(fs) |-> fs[i].size_bytes]),
     total_time_ms |-> Sum([i \in 1..Len(fs) |-> fs[i].scan_time_ms]),
     total_matches |-> Sum([i \in 1..Len(fs) |-> Len(fs[i].matches)]),
     by_severity |-> severity_histogram(AllMatches(fs)),
     by_country |-> country_histogram(AllMatches(fs)),
     extracted_files |-> 0,
     extraction_failures |-> 0]

RECURSIVE retain_skipping(_, _)
\* a retain that removes while it iterates by index, and so never looks at
\* the match that follows a removed one
retain_skipping(matches, min_confidence) ==
    IF matches = <<>>
    THEN <<>>
    ELSE IF ConfidenceRank(Head(matches).confidence) >= ConfidenceRank(min_confidence)
         THEN <<Head(matches)>> \o retain_skipping(Tail(matches), min_confidence)
         ELSE IF Len(matches) >= 2
              THEN <<matches[2]>>
                       \o retain_skipping(Tail(Tail(matches)), min_confidence)
              ELSE <<>>

\* the retain of filter_by_confidence: Confidence is ordered Low < Medium < High
retain(matches, min_confidence) ==
    SelectSeq(matches, LAMBDA m :
        ConfidenceRank(m.confidence) >= ConfidenceRank(min_confidence))

\* ScanResults::filter_by_confidence
filter_by_confidence(self, min_confidence) ==
    aggregate([i \in 1..Len(self.files) |->
                 [self.files[i] EXCEPT !.matches = retain(@, min_confidence)]])

\* ------------------------------------------------------------- HTTP adapter
\* What each URL answers: an error of scan_api_endpoint (invalid URL, send
\* failure, non-2xx status, unreadable body) or the response text; and the
\* milliseconds start_time.elapsed() shows after the detectors have run.
Endpoints ==
    [u \in {"http://a", "http://b", "http://c"} |->
      CASE u = "http://a" ->
             [response |-> Ok(<<"h", "i", "v", " ">> \o E1 \o <<" ">> \o M9
                                  \o <<" ">> \o E1),
              elapsed_ms |-> 2]
        [] u = "http://b" ->
             [response |-> Err(<<"Client error: 404 Not Found - Not Found">>),
              elapsed_ms |-> 1]
        [] OTHER ->
             [response |-> Ok(P7 \o <<"LF">> \o P7), elapsed_ms |-> 0]]

Urls == DOMAIN Endpoints

RECURSIVE api_detector_loop(_, _, _, _)
\* scan_api_endpoint, the detector loop: the matches of every detector that
\* reach min_confidence
api_detector_loop(n, response_text, api_path, min_confidence) ==
    IF n > Len(registry)
    THEN <<>>
    ELSE SelectSeq(detect(registry[n], response_text, api_path),
                   LAMBDA m : ConfidenceRank(m.confidence)
                                  >= ConfidenceRank(min_confidence))
             \o api_detector_loop(n + 1, response_text, api_path, min_confidence)

\* scan_api_endpoint when the request succeeded: Ok(ScanResults)
scan_api_endpoint(url, min_confidence) ==
    LET response_text == Endpoints[url].response.text
        all_matches == api_detector_loop(1, response_text, url, min_confidence)
        file_result == [path |-> url, matches |-> all_matches,
                        size_bytes |-> Len(response_text),
                        scan_time_ms |-> Endpoints[url].elapsed_ms,
                        error |-> NoError]
    IN  [ScanResults_new EXCEPT !.total_files = 1,
                                !.total_matches = Len(all_matches),
                                !.files = <<file_result>>]

RECURSIVE api_endpoints_loop(_, _, _)
\* scan_api_endpoints, the loop: all_files and total_matches after the
\* endpoints n..Len(endpoints)
api_endpoints_loop(endpoints, n, min_confidence) ==
    IF n > Len(endpoints)
    THEN [all_files |-> <<>>, total_matches |-> 0]
    ELSE LET rest == api_endpoints_loop(endpoints, n + 1, min_confidence)
             url == endpoints[n]
         IN  IF Endpoints[url].response.ok
             THEN LET result == scan_api_endpoint(url, min_confidence)
                  IN  [all_files |-> result.files \o rest.all_files,
                       total_matches |-> result.total_matches + rest.total_matches]
             ELSE [all_files |->
                       <<[path |-> url, matches |-> <<>>, size_bytes |-> 0,
                          scan_time_ms |-> 0,
                          error |-> SomeError(Endpoints[url].response.msg)]>>
                           \o rest.all_files,
                   total_matches |-> rest.total_matches]

\* scan_api_endpoints
scan_api_endpoints(endpoints, min_confidence) ==
    LET loop == api_endpoints_loop(endpoints, 1, min_confidence)
    IN  [ScanResults_new EXCEPT !.total_files = Len(endpoints),
                                !.total_matches = loop.total_matches,
                                !.files = loop.all_files]

\* ------------------------------------------------------------------ actions
\* the registries: the detectors of the pool a set selects, in pool order
RegistryOf(S) == SelectSeq(DetectorPool, LAMBDA d : d.id \in S)

DetectorIds == {DetectorPool[k].id : k \in 1..Len(DetectorPool)}

\* the order walk_parallel yields the paths in
WalkOrder == <<"a.txt", "b.txt", "c.pdf", "d.PDF", "e", "f.txt", "g.txt">>

NoTasks == <<>>

\* no library function has been called on its own
NoCall == [fn |-> "none"]

Init ==
    /\ registry \in {RegistryOf(S) : S \in SUBSET DetectorIds}
    /\ enable_context \in BOOLEAN
    /\ extractor_registry \in {{}, {ExtractorExtensions}}
    /\ mainpc = "ready"
    /\ files = <<>>
    /\ taskpc = NoTasks
    /\ taskres = NoTasks
    /\ extracted_count = 0
    /\ failure_count = 0
    /\ matches_count = 0
    /\ results = ScanResults_new
    /\ prev = ScanResults_new
    /\ lastOp = "none"
    /\ lastConf = "Low"
    /\ call = NoCall

\* scan_directory up to the parallel map: the walker yields the paths and
\* the three counters start at 0
WalkParallel ==
    /\ mainpc = "ready"
    /\ \E S \in SUBSET Paths :
         /\ Cardinality(S) <= MaxFiles
         /\ files' = SelectSeq(WalkOrder, LAMBDA p : p \in S)
         /\ taskpc' = [i \in 1..Cardinality(S) |-> "count"]
         /\ taskres' = [i \in 1..Cardinality(S) |-> FileResult_new("")]
    /\ extracted_count' = 0
    /\ failure_count' = 0
    /\ matches_count' = 0
    /\ mainpc' = "scanning"
    /\ UNCHANGED <<call, registry, enable_context, extractor_registry, results, prev,
                   lastOp, lastConf>>

\* will_extract looking the extension up as it is spelled
will_extract_case_sensitive(path) ==
    /\ extractor_registry # {}
    /\ \E extractors \in extractor_registry : \E ext \in FileSystem[path].ext :
           ext \in extractors

\* the closure of the parallel map, its test "this file will be extracted"
will_extract(path) ==
    /\ extractor_registry # {}
    /\ \E extractors \in extractor_registry : \E ext \in FileSystem[path].ext :
           get_by_extension(extractors, ext)

\* fetch_add that stores the addend and loses the value of the counter
fetch_add_loses_update(counter, n) == n

\* AtomicUsize::fetch_add: the new value of the counter
fetch_add(counter, n) == counter + n

\* the closure, first step: count the file if it will be extracted
CountExtracted(i) ==
    /\ mainpc = "scanning"
    /\ taskpc[i] = "count"
    /\ extracted_count' = IF will_extract(files[i])
                          THEN fetch_add(extracted_count, 1)
                          ELSE extracted_count
    /\ taskpc' = [taskpc EXCEPT ![i] = "scan"]
    /\ UNCHANGED <<call, registry, enable_context, extractor_registry, mainpc, files,
                   taskres, failure_count, matches_count, results, prev,
                   lastOp, lastConf>>

\* the closure, second step: scan_file, which returns or panics, and the
\* addition of the matches of the file to matches_count.  scan_file works on
\* data of its own task only, so it is one step with the atomic addition
\* that follows it.
ScanFile(i) ==
    /\ mainpc = "scanning"
    /\ taskpc[i] = "scan"
    /\ IF scan_file_panics(files[i])
       THEN /\ taskpc' = [taskpc EXCEPT ![i] = "panicked"]
            /\ UNCHANGED <<taskres, matches_count>>
       ELSE LET result == scan_file(files[i])
            IN  /\ taskres' = [taskres EXCEPT ![i] = result]
                /\ matches_count' =
                       IF result.matches # <<>>
                       THEN fetch_add(matches_count, Len(result.matches))
                       ELSE matches_count
                /\ taskpc' = [taskpc EXCEPT ![i] = "failure"]
    /\ UNCHANGED <<call, registry, enable_context, extractor_registry, mainpc, files,
                   extracted_count, failure_count, results, prev, lastOp,
                   lastConf>>

\* is_extraction_failure counting every file that has an error
is_any_failure(result) == result.error.some

\* the closure, its test "extraction failed": the error message contains
\* the words "Extraction failed"
is_extraction_failure(result) ==
    /\ result.error.some
    /\ contains(result.error.msg, <<"Extraction failed">>)

\* the closure, last step: count the failure and yield the result
TrackFailure(i) ==
    /\ mainpc = "scanning"
    /\ taskpc[i] = "failure"
    /\ failure_count' = IF is_extraction_failure(taskres[i])
                        THEN fetch_add(failure_count, 1)
                        ELSE failure_count
    /\ taskpc' = [taskpc EXCEPT ![i] = "done"]
    /\ UNCHANGED <<call, registry, enable_context, extractor_registry, mainpc, files,
                   taskres, extracted_count, matches_count, results, prev,
                   lastOp, lastConf>>

\* scan_directory after the parallel map: aggregate, then overwrite the
\* total time with the wall clock and copy the two extraction counters
finish_scan(collected, elapsed, extracted, failures) ==
    [aggregate(collected) EXCEPT !.total_time_ms = elapsed,
                                 !.extracted_files = extracted,
                                 !.extraction_failures = failures]

Collect ==
    /\ mainpc = "scanning"
    /\ \A i \in 1..Len(files) : taskpc[i] = "done"
    /\ \E elapsed \in 0..MaxMs :
         results' = finish_scan(taskres, elapsed, extracted_count, failure_count)
    /\ mainpc' = "done"
    /\ lastOp' = "scan_directory"
    /\ UNCHANGED <<call, registry, enable_context, extractor_registry, files, taskpc,
                   taskres, extracted_count, failure_count, matches_count,
                   prev, lastConf>>

\* a panic of a task is resumed in the caller of the parallel map once the
\* running tasks have stopped: scan_directory returns nothing
PropagatePanic ==
    /\ mainpc = "scanning"
    /\ \E i \in 1..Len(files) : taskpc[i] = "panicked"
    /\ \A i \in 1..Len(files) : taskpc[i] \in {"count", "done", "panicked"}
    /\ mainpc' = "panicked"
    /\ UNCHANGED <<call, registry, enable_context, extractor_registry, files, taskpc,
                   taskres, extracted_count, failure_count, matches_count,
                   results, prev, lastOp, lastConf>>

\* results.filter_by_confidence(c) on the ScanResults last returned
FilterByConfidence(c) ==
    /\ mainpc \in {"done", "api_done"}
    /\ prev' = results
    /\ results' = filter_by_confidence(results, c)
    /\ lastOp' = "filter"
    /\ lastConf' = c
    /\ UNCHANGED <<call, registry, enable_context, extractor_registry, mainpc, files,
                   taskpc, taskres, extracted_count, failure_count,
                   matches_count>>

\* scan_api_endpoint(url, config, registry.all(), c)
ScanApiEndpoint(url, c) ==
    /\ mainpc = "ready"
    /\ IF Endpoints[url].response.ok
       THEN /\ results' = scan_api_endpoint(url, c)
            /\ mainpc' = "api_done"
            /\ lastOp' = "api_endpoint"
       ELSE /\ mainpc' = "api_failed"
            /\ UNCHANGED <<results, lastOp>>
    /\ lastConf' = c
    /\ UNCHANGED <<call, registry, enable_context, extractor_registry, files, taskpc,
                   taskres, extracted_count, failure_count, matches_count, prev>>

\* scan_api_endpoints(endpoints, registry.all(), c)
ScanApiEndpoints(c) ==
    /\ mainpc = "ready"
    /\ \E n \in 0..MaxEndpoints : \E endpoints \in [1..n -> Urls] :
           results' = scan_api_endpoints(endpoints, c)
    /\ mainpc' = "api_done"
    /\ lastOp' = "api_endpoints"
    /\ lastConf' = c
    /\ UNCHANGED <<call, registry, enable_context, extractor_registry, files, taskpc,
                   taskres, extracted_count, failure_count, matches_count, prev>>

Next ==
    \/ WalkParallel
    \/ \E i \in 1..Len(files) : CountExtracted(i)
    \/ \E i \in 1..Len(files) : ScanFile(i)
    \/ \E i \in 1..Len(files) : TrackFailure(i)
    \/ Collect
    \/ PropagatePanic
    \/ \E c \in Confidences : FilterByConfidence(c)
    \/ \E url \in Urls : \E c \in Confidences : ScanApiEndpoint(url, c)
    \/ \E c \in Confidences : ScanApiEndpoints(c)

Spec == Init /\ [][Next]_vars

\* ------------------------------------------------------------------- claims
\* the tasks whose scan_file has returned
Returned == {i \in 1..Len(files) : taskpc[i] \in {"failure", "done"}}

\* the matches of the FileResults scan_file has returned
ReturnedMatches ==
    UNION {{taskres[i].matches[k] : k \in 1..Len(taskres[i].matches)} : i \in Returned}

RECURSIVE SumValues(_, _)
\* the sum of the values of a map over the keys S
SumValues(map, S) ==
    IF S = {} THEN 0
    ELSE LET k == CHOOSE x \in S : TRUE
         IN  map[k] + SumValues(map, S \ {k})

StartsWith(s, prefix) ==
    Len(s) >= Len(prefix) /\ SubSeq(s, 1, Len(prefix)) = prefix

FromDirectoryScan == mainpc = "done" /\ lastOp = "scan_directory"

\* C1: in every FileResult scan_file returns, a match whose gdpr_category is
\* Special has severity Critical.
C1_SpecialIsCritical ==
    \A m \in ReturnedMatches :
        m.gdpr_category.type = "Special" => m.severity = "Critical"

\* C1 witness: scan_file returned a Special match of a detector whose base
\* severity is not Critical.
C1_Witness ==
    \E m \in ReturnedMatches :
        /\ m.gdpr_category.type = "Special"
        /\ \E k \in 1..Len(registry) :
             registry[k].id = m.detector_id /\ registry[k].severity # "Critical"

\* C2: after scan_file with context analysis enabled, a match whose context
\* has category Some(c) has gdpr_category Special{c, context.keywords} and
\* severity Critical.
C2_ContextCategoryUpgrades ==
    enable_context =>
        \A m \in ReturnedMatches :
            (m.context.type = "Some" /\ m.context.category # "None") =>
                /\ m.gdpr_category = Special(m.context.category, m.context.keywords)
                /\ m.severity = "Critical"

\* C2 witness: a returned match carries a context with two keywords and a
\* category.
C2_Witness ==
    /\ enable_context
    /\ \E m \in ReturnedMatches :
         /\ m.context.type = "Some"
         /\ m.context.category = "Criminal"
         /\ Len(m.context.keywords) = 2

\* C3: in the ScanResults every operation returns, total_matches is the sum
\* over its files of the number of matches of the file.
C3_TotalMatchesIsSum ==
    lastOp # "none" =>
        results.total_matches =
            Sum([i \in 1..Len(results.files) |-> Len(results.files[i].matches)])

\* C3 witness: scan_api_endpoints returned two files with matches.
C3_Witness ==
    /\ lastOp = "api_endpoints"
    /\ Len(results.files) = 2
    /\ \A i \in 1..2 : Len(results.files[i].matches) > 0

\* C4: in the ScanResults every operation returns, by_severity and
\* by_country are exact histograms: the four severity counts sum to
\* total_matches and so do the counts of by_country.
C4_HistogramsExact ==
    lastOp # "none" =>
        /\ results.by_severity.low + results.by_severity.medium
             + results.by_severity.high + results.by_severity.critical
               = results.total_matches
        /\ SumValues(results.by_country, DOMAIN results.by_country)
               = results.total_matches

\* C5: scan_directory runs to completion whatever the files are, and returns
\* one FileResult per walked path.
C5_ScanCompletes ==
    /\ mainpc # "panicked"
    /\ FromDirectoryScan =>
         /\ results.total_files = Len(files)
         /\ Len(results.files) = Len(files)
         /\ \A i \in 1..Len(files) : results.files[i].path = files[i]

\* C6: a FileResult whose error is set has no matches, whether scan_file or
\* the HTTP adapter produced it.
C6_ErrorMeansNoMatches ==
    /\ \A i \in Returned : taskres[i].error.some => taskres[i].matches = <<>>
    /\ \A i \in 1..Len(results.files) :
         results.files[i].error.some => results.files[i].matches = <<>>

\* C6 witness: a directory scan returned a file that failed to read and a
\* file that failed to extract.
C6_Witness ==
    /\ FromDirectoryScan
    /\ \E i, j \in 1..Len(results.files) :
         /\ results.files[i].error.some
         /\ results.files[j].error.some
         /\ StartsWith(results.files[i].error.msg, <<"Failed to read file", ": ">>)
         /\ StartsWith(results.files[j].error.msg, <<"Extraction failed", ": ">>)

\* the walked paths whose extension has a registered extractor
PathsWithExtractor ==
    {i \in 1..Len(files) :
        /\ extractor_registry # {}
        /\ \E e \in FileSystem[files[i]].ext :
             ext_to_lowercase(e) \in ExtractorExtensions}

\* C7: under every interleaving, extracted_files of the ScanResults
\* scan_directory returns is the number of walked paths whose extension has
\* a registered extractor, and 0 without an extractor registry.
C7_ExtractedFilesExact ==
    FromDirectoryScan =>
        /\ results.extracted_files = Cardinality(PathsWithExtractor)
        /\ (extractor_registry = {} => results.extracted_files = 0)

\* C7 witness: two files with a registered extractor were scanned, one of
\* them with an upper-case extension.
C7_Witness ==
    /\ FromDirectoryScan
    /\ results.extracted_files = 2
    /\ \E i \in 1..Len(files) : files[i] = "d.PDF"

\* C8: under every interleaving, extraction_failures of the ScanResults
\* scan_directory returns is the number of its FileResults whose error
\* starts with "Extraction failed: "; read failures are not counted.
C8_ExtractionFailuresExact ==
    FromDirectoryScan =>
        results.extraction_failures =
            Cardinality({i \in 1..Len(results.files) :
                /\ results.files[i].error.some
                /\ StartsWith(results.files[i].error.msg,
                              <<"Extraction failed", ": ">>)})

\* C8 witness: one extraction failure was counted in a scan that also has a
\* read failure.
C8_Witness ==
    /\ FromDirectoryScan
    /\ results.extraction_failures = 1
    /\ \E i \in 1..Len(results.files) :
         /\ results.files[i].error.some
         /\ StartsWith(results.files[i].error.msg, <<"Failed to read file", ": ">>)

\* C9: R.filter_by_confidence(c) has the total_files, total_bytes,
\* total_time_ms, extracted_files and extraction_failures of R.
C9_FilterPreservesStatistics ==
    lastOp = "filter" =>
        /\ results.total_files = prev.total_files
        /\ results.total_bytes = prev.total_bytes
        /\ results.total_time_ms = prev.total_time_ms
        /\ results.extracted_files = prev.extracted_files
        /\ results.extraction_failures = prev.extraction_failures

\* C10: filter_by_confidence is monotone and idempotent: the filtered
\* total_matches is at most the original, and filtering a second time by
\* the same confidence returns the same ScanResults in every field.
C10_FilterIdempotentMonotone ==
    [][lastOp' = "filter" =>
         /\ results'.total_matches <= prev'.total_matches
         /\ (lastOp = "filter" /\ lastConf' = lastConf => results' = results)]_vars

\* C10 witness: a filter that removed nothing came after one that removed
\* matches of the scan and kept others.
C10_Witness ==
    /\ lastOp = "filter"
    /\ mainpc = "done"
    /\ results = prev
    /\ results.total_matches > 0
    /\ results.total_matches
         < Sum([i \in 1..Len(taskres) |-> Len(taskres[i].matches)])

\* ================================================ built-in country detectors
\* Each built-in detector is a library function of its own: the scan engine
\* above runs the plugin detectors main.rs loads, and the definitions below
\* model the detectors of the detectors/ directory called on a text.

MaxDigit == 3          \* the free digits of a candidate number are 0..MaxDigit

DigitChars == <<"0", "1", "2", "3", "4", "5", "6", "7", "8", "9">>

\* char::is_ascii_digit
is_ascii_digit(c) == c \in {"0", "1", "2", "3", "4", "5", "6", "7", "8", "9"}

\* char::to_digit(10) of an ASCII digit
to_digit(c) == (CHOOSE k \in 1..10 : DigitChars[k] = c) - 1

\* the word characters of the regex crate among the bytes of the model:
\* digits, letters, the underscore and the bytes of e-diaeresis
WordBytes ==
    {DigitChars[k] : k \in 1..10} \cup {LowerChars[k] : k \in 1..26}
        \cup {UpperChars[k] : k \in 1..26} \cup {"_", "C3", "AB"}

is_word_byte(c) == c \in WordBytes

\* \b between offsets i - 1 and i of the line
word_boundary(line, i) ==
    LET before == i >= 1 /\ is_word_byte(line[i])
        after == i < Len(line) /\ is_word_byte(line[i + 1])
    IN  before # after

\* A pattern is \b e1 e2 ... en \b where each element is a character class,
\* optional or not.  \d is the class of the digits, [\s\-] the class of
\* the white space of a line and the dash.
Digit == [class |-> {DigitChars[k] : k \in 1..10}, optional |-> FALSE]

SepOpt == [class |-> {" ", "TAB", "-"}, optional |-> TRUE]

DashOpt == [class |-> {"-"}, optional |-> TRUE]

\* BSN_PATTERN: \b\d{3}[\s\-]?\d{2}[\s\-]?\d{4}\b
BSN_PATTERN ==
    <<Digit, Digit, Digit, SepOpt, Digit, Digit, SepOpt,
      Digit, Digit, Digit, Digit>>

\* CPR_PATTERN: \b\d{6}-?\d{4}\b
CPR_PATTERN ==
    <<Digit, Digit, Digit, Digit, Digit, Digit, DashOpt,
      Digit, Digit, Digit, Digit>>

\* The end offset of the match of elements k.. of the pattern at offset i
\* of the line, or -1: an optional element is tried present first, then
\* absent, as the backtracking of a greedy ? does.
RECURSIVE MatchAt(_, _, _, _)
MatchAt(pattern, k, line, i) ==
    IF k > Len(pattern)
    THEN IF word_boundary(line, i) THEN i ELSE -1
    ELSE LET taken == IF i < Len(line) /\ line[i + 1] \in pattern[k].class
                      THEN MatchAt(pattern, k + 1, line, i + 1)
                      ELSE -1
         IN  IF taken # -1 \/ ~pattern[k].optional
             THEN taken
             ELSE MatchAt(pattern, k + 1, line, i)

\* Regex::find_iter: the leftmost non-overlapping matches from offset i on,
\* each as <<start, end>>; the search for the next match starts where the
\* last one ended
RECURSIVE find_iter(_, _, _)
find_iter(pattern, line, i) ==
    LET starts == {j \in i..(Len(line) - 1) :
                     word_boundary(line, j) /\ MatchAt(pattern, 1, line, j) # -1}
    IN  IF starts = {}
        THEN <<>>
        ELSE LET start == CHOOSE j \in starts : \A o \in starts : j <= o
                 end == MatchAt(pattern, 1, line, start)
             IN  << <<start, end>> >> \o find_iter(pattern, line, end)

\* validate_bsn_11_proef: the digits of the value are 9, the first is not
\* 0, and the sum weighted 9, 8, 7, 6, 5, 4, 3, 2, -1 is divisible by 11
validate_bsn_11_proef(bsn) ==
    LET digits == SelectSeq(bsn, is_ascii_digit)
        WEIGHTS == <<9, 8, 7, 6, 5, 4, 3, 2, -1>>
    IN  /\ Len(digits) = 9
        /\ to_digit(digits[1]) # 0
        /\ Sum([k \in 1..9 |-> to_digit(digits[k]) * WEIGHTS[k]]) % 11 = 0

\* CprDetector::validate_date
CprDetector_validate_date(cpr) ==
    LET normalized == SelectSeq(cpr, LAMBDA c : c # "-")
        digits == SelectSeq(normalized, is_ascii_digit)
        day == to_digit(digits[1]) * 10 + to_digit(digits[2])
        month == to_digit(digits[3]) * 10 + to_digit(digits[4])
    IN  /\ Len(digits) = 10
        /\ month \in 1..12
        /\ day \in 1..31
        /\ ~(month = 2 /\ day > 29)
        /\ ~(month \in {4, 6, 9, 11} /\ day > 30)

\* CprDetector::validate_cpr
CprDetector_validate_cpr(cpr) ==
    LET normalized == SelectSeq(cpr, LAMBDA c : c # "-")
        digits == SelectSeq(normalized, is_ascii_digit)
        weights == <<4, 3, 2, 7, 6, 5, 4, 3, 2, 1>>
    IN  /\ Len(normalized) = 10
        /\ Len(digits) = 10
        /\ Sum([k \in 1..10 |-> to_digit(digits[k]) * weights[k]]) % 11 = 0

\* the Match both detectors push: High confidence, Critical severity, the
\* digits of the matched text masked by mask_value
CountryMatch(id, country, digits, line_num, capture, byte_offset, confidence) ==
    [detector_id |-> id,
     country |-> country,
     value_masked |-> mask_value(digits),
     location |-> [file_path |-> "",
                   line |-> line_num + 1,
                   column |-> capture[1],
                   start_byte |-> byte_offset + capture[1],
                   end_byte |-> byte_offset + capture[2]],
     confidence |-> confidence,
     severity |-> "Critical",
     context |-> NoContext,
     gdpr_category |-> Regular]

BsnDetector_capture_reports_low(line, line_num, capture, byte_offset) ==
    LET matched_text == Slice(line, capture[1], capture[2])
        digits == SelectSeq(matched_text, is_ascii_digit)
        confidence == IF validate_bsn_11_proef(digits) THEN "High" ELSE "Low"
    IN  <<CountryMatch("nl_bsn", "nl", digits, line_num, capture, byte_offset,
                       confidence)>>

\* BsnDetector::detect, the body of the loop over the captures of a line
BsnDetector_capture(line, line_num, capture, byte_offset) ==
    LET matched_text == Slice(line, capture[1], capture[2])
        digits == SelectSeq(matched_text, is_ascii_digit)
        confidence == IF validate_bsn_11_proef(digits) THEN "High" ELSE "Low"
    IN  IF confidence = "High"
        THEN <<CountryMatch("nl_bsn", "nl", digits, line_num, capture,
                            byte_offset, confidence)>>
        ELSE <<>>

\* CprDetector::detect, the body of the loop over the captures of a line
CprDetector_capture(line, line_num, capture, byte_offset) ==
    LET value == Slice(line, capture[1], capture[2])
        digits == SelectSeq(value, LAMBDA c : c # "-")
    IN  IF ~CprDetector_validate_date(value)
        THEN <<>>
        ELSE IF ~CprDetector_validate_cpr(value)
             THEN <<>>
             ELSE <<CountryMatch("danish_cpr", "dk", digits, line_num, capture,
                                 byte_offset, "High")>>

\* the loops of detect over the lines of the text and the captures of a
\* line; byte_offset grows by line.len() + 1 per line
RECURSIVE CountryCaptures(_, _, _, _, _, _)
CountryCaptures(id, line, line_num, captures, k, byte_offset) ==
    IF k > Len(captures)
    THEN <<>>
    ELSE (IF id = "nl_bsn"
          THEN BsnDetector_capture(line, line_num, captures[k], byte_offset)
          ELSE CprDetector_capture(line, line_num, captures[k], byte_offset))
         \o CountryCaptures(id, line, line_num, captures, k + 1, byte_offset)

RECURSIVE CountryLines(_, _, _, _)
CountryLines(id, ls, n, byte_offset) ==
    IF n > Len(ls)
    THEN <<>>
    ELSE LET pattern == IF id = "nl_bsn" THEN BSN_PATTERN ELSE CPR_PATTERN
         IN  CountryCaptures(id, ls[n], n - 1, find_iter(pattern, ls[n], 0), 1,
                             byte_offset)
             \o CountryLines(id, ls, n + 1, byte_offset + Len(ls[n]) + 1)

\* BsnDetector::detect
BsnDetector_detect(text) == CountryLines("nl_bsn", lines(text), 1, 0)

\* CprDetector::detect
CprDetector_detect(text) == CountryLines("danish_cpr", lines(text), 1, 0)

\* ------------------------------------------- the detectors called on a text
\* the scan engine is not running while a library function is called alone
scanVars == <<registry, enable_context, extractor_registry, mainpc, files,
              taskpc, taskres, extracted_count, failure_count, matches_count,
              results, prev, lastOp, lastConf>>

EngineIdle ==
    /\ registry = <<>>
    /\ enable_context = FALSE
    /\ extractor_registry = {}
    /\ mainpc = "ready"
    /\ files = <<>>
    /\ taskpc = NoTasks
    /\ taskres = NoTasks
    /\ extracted_count = 0
    /\ failure_count = 0
    /\ matches_count = 0
    /\ results = ScanResults_new
    /\ prev = ScanResults_new
    /\ lastOp = "none"
    /\ lastConf = "Low"

InitCall == EngineIdle /\ call = NoCall

\* the digit characters 0..MaxDigit
FreeDigits == {DigitChars[k + 1] : k \in 0..MaxDigit}

\* what stands before and after a candidate number in the text
Before == {<<>>, <<"x">>, <<"x", " ">>,
           <<"1", "1", "1", "2", "2", "2", "3", "3", "3", "CR", "LF">>}

After == {<<>>, <<"x">>, <<"4">>,
          <<" ", "1", "1", "1", "2", "2", "2", "3", "3", "4">>}

\* texts around a nine-digit candidate d11-222-2abc, separators optional
BsnTexts ==
    {pre \o <<d, "1", "1">> \o s1 \o <<"2", "2">> \o s2 \o <<"2", a, b, c>> \o post :
        pre \in Before, post \in After, d \in {"0", "1"},
        s1 \in {<<>>, <<" ">>, <<"-">>}, s2 \in {<<>>, <<" ">>, <<"-">>},
        a \in FreeDigits, b \in FreeDigits, c \in FreeDigits}

\* texts around a ten-digit candidate DD0M70-000C, the dash optional
CprTexts ==
    {pre \o <<d1, d2, "0", m, "7", "0">> \o dash \o <<"0", "0", "0", c>> \o post :
        pre \in Before, post \in After, dash \in {<<>>, <<"-">>},
        d1 \in FreeDigits, d2 \in FreeDigits, m \in FreeDigits,
        c \in FreeDigits}

CallBsnDetect ==
    /\ call = NoCall
    /\ \E text \in BsnTexts :
         call' = [fn |-> "BsnDetector::detect", arg |-> text,
                  ret |-> BsnDetector_detect(text)]
    /\ UNCHANGED scanVars

CallCprDetect ==
    /\ call = NoCall
    /\ \E text \in CprTexts :
         call' = [fn |-> "CprDetector::detect", arg |-> text,
                  ret |-> CprDetector_detect(text)]
    /\ UNCHANGED scanVars

\* ============================================== masking and the e-mail detector
MaxLocal == 3          \* bytes in the local part of a modelled e-mail address
MaxLen == 14           \* digits in a value given to a masking function

\* str::find of one byte: its 0-based offset, or -1
find(s, c) ==
    IF \E k \in 1..Len(s) : s[k] = c
    THEN (CHOOSE k \in 1..Len(s) : s[k] = c /\ \A j \in 1..(k - 1) : s[j] # c) - 1
    ELSE -1

\* char::is_whitespace on the bytes of the model
is_whitespace(c) == c \in {" ", "TAB", "LF", "CR"}

\* mask_email: the first byte of the local part, stars for the rest of it,
\* and the domain from the @ on; an empty local part returns the address
mask_email(email) ==
    LET at_pos == find(email, "@")
        local == Slice(email, 0, at_pos)
        domain == Slice(email, at_pos, Len(email))
        show_chars == Min(1, Len(local))
        mask_len == Len(local) - show_chars
    IN  IF at_pos # -1
        THEN IF local = <<>>
             THEN email
             ELSE Slice(local, 0, show_chars) \o Rep(mask_len, "*") \o domain
        ELSE Rep(Len(email), "*")

\* mask_credit_card: the digits of the value, all but the last 4 as stars
mask_credit_card(value) ==
    LET digits == SelectSeq(value, is_ascii_digit)
        len == Len(digits)
    IN  IF len < 13
        THEN Rep(len, "*")
        ELSE Rep(len - 4, "*") \o Slice(digits, len - 4, len)

\* mask_iban: the value without white space, the first 2 and the last 4
\* bytes shown
mask_iban(iban) ==
    LET clean == SelectSeq(iban, LAMBDA c : ~is_whitespace(c))
        len == Len(clean)
    IN  IF len < 6
        THEN Rep(len, "*")
        ELSE Slice(clean, 0, 2) \o Rep(len - 6, "*") \o Slice(clean, len - 4, len)

\* mask_phone: the digits and plus signs of the value, the first 3 (with a
\* leading +) or 2 and the last 3 shown
mask_phone(phone) ==
    LET digits == SelectSeq(phone, LAMBDA c : is_ascii_digit(c) \/ c = "+")
        len == Len(digits)
        show_start == IF digits[1] = "+" THEN 3 ELSE 2
        show_end == 3
        mask_len == len - show_start - show_end
    IN  IF len < 6
        THEN Rep(len, "*")
        ELSE Slice(digits, 0, show_start) \o Rep(mask_len, "*")
                 \o Slice(digits, len - show_end, len)

\* whether a masking function panics on the value: a slice of mask_value,
\* mask_email or mask_iban that does not start and end on character
\* boundaries.  mask_credit_card and mask_phone slice ASCII only.
mask_panics(fn, v) ==
    LET len == Len(v)
        clean == SelectSeq(v, LAMBDA c : ~is_whitespace(c))
    IN  CASE fn = "mask_value" ->
                 /\ len > 5
                 /\ \/ ~SliceOk(v, 0, Min(3, len \div 3))
                    \/ ~SliceOk(v, len - Min(2, len \div 4), len)
          [] fn = "mask_email" ->
                 /\ find(v, "@") > 0
                 /\ ~SliceOk(Slice(v, 0, find(v, "@")), 0, 1)
          [] fn = "mask_iban" ->
                 /\ Len(clean) >= 6
                 /\ \/ ~SliceOk(clean, 0, 2)
                    \/ ~SliceOk(clean, Len(clean) - 4, Len(clean))
          [] OTHER -> FALSE

\* EMAIL_PATTERN from offset i on, each match as <<start, end>>:
\* \b[A-Za-z0-9._%+-]+@[A-Za-z0-9.-]+\.[A-Za-z]{2,}\b, every repetition
\* greedy: the longest domain for which the rest matches, then the longest
\* top-level name that ends at a word boundary
RECURSIVE EMAIL_PATTERN(_, _)
EMAIL_PATTERN(line, i) ==
    LET alnum == WordBytes \ {"_", "C3", "AB"}
        all_in(a, b, class) == \A j \in (a + 1)..b : line[j] \in class
        \* the <<end of the domain, end of the match>> pairs of a start
        ends(s) ==
            {p \in ((s + 1)..Len(line)) \X ((s + 1)..Len(line)) :
                \E at \in (s + 1)..(p[1] - 2) :
                    /\ all_in(s, at, alnum \cup {".", "_", "%", "+", "-"})
                    /\ line[at + 1] = "@"
                    /\ all_in(at + 1, p[1], alnum \cup {".", "-"})
                    /\ p[1] < Len(line)
                    /\ line[p[1] + 1] = "."
                    /\ p[2] >= p[1] + 3
                    /\ all_in(p[1] + 1, p[2], alnum \ {DigitChars[k] : k \in 1..10})
                    /\ word_boundary(line, p[2])}
        starts == {s \in i..Len(line) : word_boundary(line, s) /\ ends(s) # {}}
        start == CHOOSE s \in starts : \A t \in starts : s <= t
        best == CHOOSE p \in ends(start) :
                    \A q \in ends(start) :
                        q[1] < p[1] \/ (q[1] = p[1] /\ q[2] <= p[2])
    IN  IF starts = {}
        THEN <<>>
        ELSE << <<start, best[2]>> >> \o EMAIL_PATTERN(line, best[2])

\* EmailDetector::detect
EmailDetector_detect(text) ==
    LET ls == lines(text)
        byte_offset(n) == Sum([j \in 1..(n - 1) |-> Len(ls[j]) + 1])
        of_line(n) ==
            LET found == EMAIL_PATTERN(ls[n], 0)
            IN  [matches |->
                   [k \in 1..Len(found) |->
                      [detector_id |-> "email",
                       country |-> "universal",
                       value_masked |-> mask_email(Slice(ls[n], found[k][1], found[k][2])),
                       location |-> [file_path |-> "",
                                     line |-> n,
                                     column |-> found[k][1],
                                     start_byte |-> byte_offset(n) + found[k][1],
                                     end_byte |-> byte_offset(n) + found[k][2]],
                       confidence |-> "High",
                       severity |-> "Medium",
                       context |-> NoContext,
                       gdpr_category |-> Regular]]]
    IN  AllMatches([n \in 1..Len(ls) |-> of_line(n)])

\* texts around an address: a local part of a and dot, a domain
EmailTexts ==
    {pre \o local \o <<"@">> \o domain \o post :
        pre \in Before, post \in After,
        local \in UNION {[1..n -> {"a", "."}] : n \in 1..MaxLocal},
        domain \in {<<"b", ".", "c", "o">>, <<"b", ".", "c">>,
                    <<"b", ".", "c", ".", "n", "l">>}}

CallEmailDetect ==
    /\ call = NoCall
    /\ \E text \in EmailTexts :
         call' = [fn |-> "EmailDetector::detect", arg |-> text,
                  ret |-> EmailDetector_detect(text)]
    /\ UNCHANGED scanVars

\* ------------------------------------ context analysis of built-in matches
MaxPad == 2            \* bytes a window is moved around a boundary; spaces
                       \* between a keyword and a candidate: up to MaxPad,
                       \* and within MaxPad of 94

\* texts with a two-byte character, filling bytes and a valid number, so
\* that the window of analyze starts or ends near the character
ContextTexts ==
    {first \o Rep(a, "x") \o <<"C3", "AB">> \o Rep(b, "x")
        \o <<" ", "1", "1", "1", "2", "2", "2", "3", "3", "3">> \o last :
        first \in {<<>>, <<"x", "CR", "LF">>},
        a \in 0..1,
        b \in (window_size - 2 - MaxPad)..(window_size - 2 + MaxPad),
        last \in {<<>>} \cup {Rep(c, "x") \o <<"C3", "AB", "x">> :
                                c \in (window_size - 1 - MaxPad)..(window_size - 1)}}

\* scan_file, its loop over the matches of a detector with context
\* analysis enabled: analyze on the text and the offsets of each match
CallAnalyzeMatches ==
    /\ call = NoCall
    /\ \E text \in ContextTexts :
         LET matches == BsnDetector_detect(text)
         IN  call' = [fn |-> "ContextAnalyzer::analyze", arg |-> text,
                      matches |-> matches,
                      ret |-> [k \in 1..Len(matches) |->
                                 analyze(text, matches[k].location.start_byte,
                                         matches[k].location.end_byte)]]
    /\ UNCHANGED scanVars

\* --------------------------------------------- analyze called on its own
MaxWords == 2          \* words before the match in a text given to analyze

\* the words of the texts: a keyword of each category (dna is one of two),
\* one in upper case, and a word that is no keyword
ContextWords ==
    {<<"h", "i", "v", " ">>, <<"D", "N", "A", " ">>, <<"j", "a", "i", "l", " ">>,
     <<"i", "r", "i", "s", "s", "c", "a", "n", " ">>, <<"x", " ">>}

RECURSIVE WordsBefore(_)
WordsBefore(n) ==
    IF n = 0 THEN {<<>>}
    ELSE LET shorter == WordsBefore(n - 1)
         IN  shorter \cup {s \o w : s \in shorter, w \in ContextWords}

\* a keyword further than the window from the match or nothing, words, the
\* match 123, and a word or a piece of one after it
CallAnalyze ==
    /\ call = NoCall
    /\ \E far \in {<<>>, <<"j", "a", "i", "l">> \o Rep(window_size, "x")} :
       \E before \in WordsBefore(MaxWords) :
       \E after \in {<<>>, <<"v">>} \cup {<<" ">> \o w : w \in ContextWords} :
         LET text == far \o before \o <<"1", "2", "3">> \o after
             match_start == Len(far) + Len(before)
         IN  call' = [fn |-> "analyze",
                      arg |-> [text |-> text, match_start |-> match_start,
                               match_end |-> match_start + 3],
                      ret |-> analyze(text, match_start, match_start + 3)]
    /\ UNCHANGED scanVars

NextDetect ==
    \/ CallBsnDetect \/ CallCprDetect \/ CallEmailDetect
    \/ CallAnalyzeMatches \/ CallAnalyze

SpecDetect == InitCall /\ [][NextDetect]_vars

\* the raw value of a match: its columns of its line
RawValue(text, m) ==
    Slice(lines(text)[m.location.line], m.location.column,
          m.location.column + (m.location.end_byte - m.location.start_byte))

\* C11: every Match a built-in country detector emits has confidence High
\* and a raw matched value that passes the checksum validator of the
\* detector, and a candidate of the pattern that fails the validator is not
\* emitted.
C11_CountryMatchesValidated ==
    call.fn \in {"BsnDetector::detect", "CprDetector::detect"} =>
        LET bsn == call.fn = "BsnDetector::detect"
            ls == lines(call.arg)
            pattern == IF bsn THEN BSN_PATTERN ELSE CPR_PATTERN
            valid(raw) == IF bsn THEN validate_bsn_11_proef(raw)
                          ELSE CprDetector_validate_cpr(raw)
        IN  /\ \A k \in 1..Len(call.ret) :
                 /\ call.ret[k].confidence = "High"
                 /\ valid(RawValue(call.arg, call.ret[k]))
            /\ \A n \in 1..Len(ls) :
                 LET found == find_iter(pattern, ls[n], 0)
                 IN  \A j \in 1..Len(found) :
                       ~valid(Slice(ls[n], found[j][1], found[j][2])) =>
                          ~\E k \in 1..Len(call.ret) :
                               /\ call.ret[k].location.line = n
                               /\ call.ret[k].location.column = found[j][1]

\* C11 witness: the BSN detector emitted the one valid number of a text
\* that also holds a candidate failing the 11-proef, and the emitted raw
\* value has a separator in it.
C11_Witness ==
    /\ call.fn = "BsnDetector::detect"
    /\ Len(call.ret) = 1
    /\ Len(find_iter(BSN_PATTERN, lines(call.arg)[1], 0)) = 2
    /\ "-" \in {RawValue(call.arg, call.ret[1])[i] :
                  i \in 1..Len(RawValue(call.arg, call.ret[1]))}

\* C13: the value_masked of every Match a built-in detector emits hides at
\* least one character of the raw matched value and differs from it, so no
\* raw value is stored in a Match.
C13_MaskedNeverRaw ==
    call.fn \in {"BsnDetector::detect", "CprDetector::detect",
                 "EmailDetector::detect"} =>
        \A k \in 1..Len(call.ret) :
            /\ call.ret[k].value_masked # RawValue(call.arg, call.ret[k])
            /\ \E j \in 1..Len(call.ret[k].value_masked) :
                   call.ret[k].value_masked[j] = "*"

\* ========================================================= API key detector

\* the class [A-Za-z0-9+/=]
Base64Bytes == (WordBytes \ {"_", "C3", "AB"}) \cup {"+", "/", "="}

\* HIGH_ENTROPY_PATTERN from offset i on, each match as <<start, end>>:
\* \b[A-Za-z0-9+/=]{32,}\b, the repetition greedy and backing off to the
\* last word boundary.  The alternative \b[A-Fa-f0-9]{40,}\b matches only
\* where the first alternative does, so it never decides a match.
RECURSIVE HIGH_ENTROPY_PATTERN(_, _)
HIGH_ENTROPY_PATTERN(line, i) ==
    LET in_class(k) == k < Len(line) /\ line[k + 1] \in Base64Bytes
        \* the ends a match that starts at offset k can have
        ends(k) == {e \in (k + 32)..Len(line) :
                      /\ \A j \in k..(e - 1) : in_class(j)
                      /\ word_boundary(line, e)}
        starts == {k \in i..(Len(line) - 32) :
                      word_boundary(line, k) /\ in_class(k) /\ ends(k) # {}}
        start == CHOOSE k \in starts : \A j \in starts : k <= j
        end == CHOOSE e \in ends(start) : \A f \in ends(start) : f <= e
    IN  IF starts = {}
        THEN <<>>
        ELSE << <<start, end>> >> \o HIGH_ENTROPY_PATTERN(line, end)

\* the keyword lists, restricted to the keywords the modelled texts hold
SECRET_CONTEXT_KEYWORDS ==
    << <<"t", "o", "k", "e", "n">>, <<"k", "e", "y">>, <<"p", "w", "d">> >>

FALSE_POSITIVE_KEYWORDS == << <<"t", "e", "s", "t">>, <<"d", "e", "m", "o">> >>

\* ApiKeyDetector::analyze_context; the slice panics when its start is not
\* a character boundary
ApiKeyDetector_analyze_context(text, match_start) ==
    LET context_start == saturating_sub(match_start, 100)
        context == to_lowercase(Slice(text, context_start, match_start))
    IN  IF ~SliceOk(text, context_start, match_start)
        THEN "Panic"
        ELSE IF \E k \in 1..Len(FALSE_POSITIVE_KEYWORDS) :
                    contains(context, FALSE_POSITIVE_KEYWORDS[k])
             THEN "Low"
             ELSE IF \E k \in 1..Len(SECRET_CONTEXT_KEYWORDS) :
                         contains(context, SECRET_CONTEXT_KEYWORDS[k])
                  THEN "High"
                  ELSE "Medium"

\* shannon_entropy(text) times text.len().  The candidates of the model
\* have a length and character counts that are powers of two, where every
\* probability and logarithm of the f64 computation is exact:
\* len * H = sum over the characters c of count(c) * (log2 len - log2 count(c)).
shannon_entropy_times_len(text) ==
    LET len == Len(text)
        chars == {text[i] : i \in 1..len}
        count(c) == Cardinality({i \in 1..len : text[i] = c})
        log2(n) == CHOOSE k \in 0..9 : 2 ^ k = n
        each == [c \in chars |-> count(c) * (log2(len) - log2(count(c)))]
    IN  IF len = 0 THEN 0 ELSE SumValues(each, chars)

\* is_high_entropy with a whole threshold
is_high_entropy(text, threshold) ==
    shannon_entropy_times_len(text) >= threshold * Len(text)

\* randomness_score: 5 * entropy / 6 truncated, plus the length tier, plus
\* one for each character kind present, at most 10
randomness_score(text) ==
    LET length == Len(text)
        entropy_score == (5 * shannon_entropy_times_len(text)) \div (6 * length)
        length_score == IF length >= 32 THEN 3 ELSE IF length >= 20 THEN 2 ELSE 1
        has_upper == \E i \in 1..length : to_lowercase_byte(text[i]) # text[i]
        has_lower == \E i \in 1..length : \E k \in 1..26 : text[i] = LowerChars[k]
        has_digit == \E i \in 1..length : is_ascii_digit(text[i])
        has_special == \E i \in 1..length : ~is_word_byte(text[i]) \/ text[i] = "_"
        complexity_score == Cardinality({k \in 1..4 :
                               <<has_upper, has_lower, has_digit, has_special>>[k]})
    IN  Min(entropy_score + length_score + complexity_score, 10)

\* ApiKeyDetector::detect_high_entropy: the matches, or a panic of
\* analyze_context.  mask_api_key is not among the sources, so the Match of
\* the model has no value_masked.
ApiKeyDetector_detect_high_entropy(text) ==
    LET ls == lines(text)
        byte_offset(n) == Sum([j \in 1..(n - 1) |-> Len(ls[j]) + 1])
        nothing == [panicked |-> FALSE, matches |-> <<>>]
        capture(n, matched) ==
            LET matched_text == Slice(ls[n], matched[1], matched[2])
                confidence ==
                    ApiKeyDetector_analyze_context(text, byte_offset(n) + matched[1])
            IN  IF Len(matched_text) < 32 \/ Len(matched_text) > 512
                THEN nothing
                ELSE IF is_high_entropy(matched_text, 4)
                           /\ randomness_score(matched_text) >= 6
                     THEN IF confidence = "Panic"
                          THEN [panicked |-> TRUE, matches |-> <<>>]
                          ELSE IF confidence \in {"Medium", "High"}
                               THEN [panicked |-> FALSE, matches |->
                                      <<[detector_id |-> "api_key",
                                         country |-> "universal",
                                         location |->
                                            [file_path |-> "",
                                             line |-> n,
                                             column |-> matched[1],
                                             start_byte |-> byte_offset(n) + matched[1],
                                             end_byte |-> byte_offset(n) + matched[2]],
                                         confidence |-> confidence,
                                         severity |-> "Critical",
                                         context |-> NoContext,
                                         gdpr_category |-> Regular]>>]
                               ELSE nothing
                     ELSE nothing
        of_line(n) ==
            LET found == HIGH_ENTROPY_PATTERN(ls[n], 0)
                each == [k \in 1..Len(found) |-> capture(n, found[k])]
            IN  [panicked |-> \E k \in 1..Len(each) : each[k].panicked,
                 matches |-> AllMatches(each)]
        all == [n \in 1..Len(ls) |-> of_line(n)]
    IN  IF \E n \in 1..Len(all) : all[n].panicked
        THEN [panicked |-> TRUE, matches |-> <<>>]
        ELSE [panicked |-> FALSE, matches |-> AllMatches(all)]

\* 32 different characters, 16 different characters twice each, and 8
\* different characters four times each: entropy 5, 4 and 3
SecretCandidates ==
    LET l(a, b) == SubSeq(LowerChars, a, b)
        u(a, b) == SubSeq(UpperChars, a, b)
        d(a, b) == SubSeq(DigitChars, a, b)
    IN  {l(1, 16) \o u(1, 8) \o d(1, 8),
         l(1, 8) \o d(1, 8) \o l(1, 8) \o d(1, 8),
         l(1, 8) \o l(1, 8) \o l(1, 8) \o l(1, 8)}

\* a text: a lead, a keyword or none, spaces, a candidate and a trail
SecretTexts ==
    {lead \o keyword \o Rep(pad, " ") \o candidate \o trail :
        lead \in {<<>>, <<"x", "LF">>, <<"C3", "AB">>},
        keyword \in {<<>>, <<"T", "o", "k", "e", "n", ":", " ">>,
                     <<"k", "e", "y", " ", "=", " ">>, <<"p", "w", "d", " ">>,
                     <<"t", "e", "s", "t", " ", "k", "e", "y", " ">>,
                     <<"x", "y", "z", " ">>},
        pad \in (0..MaxPad) \cup ((94 - MaxPad)..(94 + MaxPad)),
        candidate \in SecretCandidates,
        trail \in {<<>>, <<" ", "x">>}}

CallDetectHighEntropy ==
    /\ call = NoCall
    /\ \E text \in SecretTexts :
         call' = [fn |-> "ApiKeyDetector::detect_high_entropy", arg |-> text,
                  ret |-> ApiKeyDetector_detect_high_entropy(text)]
    /\ UNCHANGED scanVars

NextApiKey == CallDetectHighEntropy

SpecApiKey == InitCall /\ [][NextApiKey]_vars

\* C12: every match of the high-entropy pass has a secret-indicator keyword
\* in the 100 characters before it, so no high-entropy string without one
\* is emitted at any confidence.
C12_HighEntropyNeedsKeyword ==
    call.fn = "ApiKeyDetector::detect_high_entropy" =>
        \A k \in 1..Len(call.ret.matches) :
            LET start == call.ret.matches[k].location.start_byte
                before == to_lowercase(
                              Slice(call.arg, saturating_sub(start, 100), start))
            IN  \E j \in 1..Len(SECRET_CONTEXT_KEYWORDS) :
                    contains(before, SECRET_CONTEXT_KEYWORDS[j])

\* ============================================= the masking functions alone
MaskFns == {"mask_value", "mask_email", "mask_phone", "mask_iban",
            "mask_credit_card"}

\* values: up to MaxLen digits, and the same with one separator, sign or
\* two-byte character put in at any place
MaskInputs ==
    LET digits(n) == [k \in 1..n |-> DigitChars[((k - 1) % 10) + 1]]
        put(n, p, x) == SubSeq(digits(n), 1, p) \o x \o SubSeq(digits(n), p + 1, n)
    IN  {digits(n) : n \in 0..MaxLen}
            \cup UNION {{put(n, p, x) : p \in 0..n,
                                        x \in {<<" ">>, <<"-">>, <<"+">>, <<"@">>,
                                               <<"C3", "AB">>}} :
                        n \in 0..MaxLen}

\* a masking function called on a value: it returns a String or panics
CallMask(fn) ==
    /\ call = NoCall
    /\ \E v \in MaskInputs :
         LET masked == CASE fn = "mask_value" -> mask_value(v)
                         [] fn = "mask_email" -> mask_email(v)
                         [] fn = "mask_phone" -> mask_phone(v)
                         [] fn = "mask_iban" -> mask_iban(v)
                         [] fn = "mask_credit_card" -> mask_credit_card(v)
         IN  call' = [fn |-> fn, arg |-> v,
                      ret |-> IF mask_panics(fn, v)
                              THEN [panicked |-> TRUE, masked |-> <<>>]
                              ELSE [panicked |-> FALSE, masked |-> masked]]
    /\ UNCHANGED scanVars

NextMask == \E fn \in MaskFns : CallMask(fn)

SpecMask == InitCall /\ [][NextMask]_vars

\* C14: every masking function returns a value as long as its input, the
\* input of mask_iban and mask_credit_card taken without its white space.
C14_MaskKeepsLength ==
    call.fn \in MaskFns =>
        /\ ~call.ret.panicked
        /\ Len(call.ret.masked) =
              IF call.fn \in {"mask_iban", "mask_credit_card"}
              THEN Len(SelectSeq(call.arg, LAMBDA c : ~is_whitespace(c)))
              ELSE Len(call.arg)

\* ========================================================= the scan command
\* handle_file_commands for Commands::Scan, one step per stage: the checks
\* of the directory, the walker main configures, scan_directory with the
\* walker it makes itself, the confidence filter, the report and the exit.
\* The state of the command is the record call.
MaxDepth == 2          \* largest --max-depth given on the command line

\* The entries under the directory: depth below the root (a file in the
\* root has depth 1), length in MB, hidden or not, extension, and the
\* confidences of the matches scan_file finds in it
Tree ==
    {[path |-> "a.txt", depth |-> 1, len |-> 1, hidden |-> FALSE,
      ext |-> {"txt"}, found |-> <<"High">>],
     [path |-> "sub/b.log", depth |-> 2, len |-> 1, hidden |-> FALSE,
      ext |-> {"log"}, found |-> <<"Low">>],
     [path |-> "big.csv", depth |-> 1, len |-> 150, hidden |-> FALSE,
      ext |-> {"csv"}, found |-> <<"Medium">>],
     [path |-> "img.PNG", depth |-> 1, len |-> 1, hidden |-> FALSE,
      ext |-> {"PNG"}, found |-> <<>>],
     [path |-> ".env", depth |-> 1, len |-> 1, hidden |-> TRUE,
      ext |-> {}, found |-> <<"High">>]}

\* Walker::new: hidden files skipped, no depth limit, 100 MB.  Lengths are
\* in MB on both sides of the comparison of process_entry.
Walker_new == [hidden |-> TRUE, max_depth |-> {}, threads |-> {}, max_filesize |-> 100]

\* Walker::walk_parallel: the files WalkBuilder yields within max_depth,
\* without the hidden ones when hidden is set, that process_entry keeps
walk_parallel(walker, tree) ==
    {e \in tree : /\ walker.hidden => ~e.hidden
                  /\ \A depth \in walker.max_depth : e.depth <= depth
                  /\ ~(e.len > walker.max_filesize)}

\* FileFilter::should_scan on the extension of a path
should_scan(filter, extension) ==
    LET ext_str == {IF x = "PNG" THEN "png" ELSE x : x \in extension}
    IN  /\ \A allowed \in filter.allowed_extensions :
             extension # {} /\ ext_str \subseteq allowed
        /\ filter.scan_binary
              \/ ext_str \cap {"exe", "dll", "so", "dylib", "bin", "jpg", "jpeg",
                               "png", "gif", "bmp", "mp3", "mp4", "avi", "mov",
                               "zip", "tar", "gz"} = {}

\* the command lines and environments of the model
InitCommand ==
    /\ EngineIdle
    /\ call \in [fn : {"Scan"}, pc : {"validate"},
                 directory : {"missing", "file", "dir"},
                 tree : SUBSET Tree,
                 max_depth : {{}} \cup {{d} : d \in 0..MaxDepth},
                 threads : {{}, {1}},
                 max_filesize : {100, 200, 1},
                 min_confidence : Confidences,
                 format : {"Terminal", "Json"},
                 write_fails : BOOLEAN,
                 walker : {Walker_new}, files : {{}}, total_matches : {0},
                 exit_code : {"running"}]

\* main.rs 88-99: the directory must exist and be a directory
Validate ==
    /\ call.fn = "Scan" /\ call.pc = "validate"
    /\ call' = IF call.directory # "dir"
               THEN [call EXCEPT !.pc = "exited", !.exit_code = 1]
               ELSE [call EXCEPT !.pc = "configure"]
    /\ UNCHANGED scanVars

\* main.rs 135-146: the walker of main, bound to _walker
ConfigureWalker ==
    /\ call.fn = "Scan" /\ call.pc = "configure"
    /\ call' = [call EXCEPT !.pc = "scan",
                            !.walker = [Walker_new EXCEPT
                                          !.max_depth = call.max_depth,
                                          !.threads = call.threads,
                                          !.max_filesize = call.max_filesize]]
    /\ UNCHANGED scanVars

\* main.rs 165 and engine.rs 136-143: scan_directory walks with
\* Walker::new(root) and scans every file of that walk
ScanDirectory ==
    /\ call.fn = "Scan" /\ call.pc = "scan"
    /\ LET walked == walk_parallel(Walker_new, call.tree)
       IN  call' = [call EXCEPT
                      !.pc = "filter",
                      !.files = {e.path : e \in walked},
                      !.total_matches =
                          SumValues([e \in walked |-> Len(e.found)], walked)]
    /\ UNCHANGED scanVars

\* main.rs 168-169: filter_by_confidence
FilterResults ==
    /\ call.fn = "Scan" /\ call.pc = "filter"
    /\ LET scanned == {e \in call.tree : e.path \in call.files}
           kept(e) == retain([k \in 1..Len(e.found) |-> [confidence |-> e.found[k]]],
                             call.min_confidence)
       IN  call' = [call EXCEPT
                      !.pc = "report",
                      !.total_matches = SumValues([e \in scanned |-> Len(kept(e))], scanned)]
    /\ UNCHANGED scanVars

\* main.rs 172-220: the report; a reporter that fails ends the process
Report ==
    /\ call.fn = "Scan" /\ call.pc = "report"
    /\ call' = IF call.format # "Terminal" /\ call.write_fails
               THEN [call EXCEPT !.pc = "exited", !.exit_code = 1]
               ELSE [call EXCEPT !.pc = "exit"]
    /\ UNCHANGED scanVars

\* main.rs 222-226: exit code 1 if a match is left, else main returns
Exit ==
    /\ call.fn = "Scan" /\ call.pc = "exit"
    /\ call' = [call EXCEPT !.pc = "exited",
                            !.exit_code = IF call.total_matches > 0 THEN 1 ELSE 0]
    /\ UNCHANGED scanVars

NextCommand ==
    Validate \/ ConfigureWalker \/ ScanDirectory \/ FilterResults \/ Report \/ Exit

SpecCommand == InitCommand /\ [][NextCommand]_vars

\* C15: scan_directory scans exactly the paths the walker configured by the
\* caller yields: --max-depth, --threads and --max-filesize decide the
\* files of a directory scan.
C15_ScansConfiguredWalk ==
    call.fn = "Scan" /\ call.pc \in {"filter", "report", "exit"} =>
        call.files = {e.path : e \in walk_parallel(call.walker, call.tree)}

\* C16: binary scanning is never enabled by the command, so no path with an
\* extension of the binary list is walked or scanned.
C16_NoBinaryScanned ==
    call.fn = "Scan" /\ call.pc \in {"filter", "report", "exit"} =>
        \A e \in call.tree :
            e.path \in call.files =>
                should_scan([scan_binary |-> FALSE, allowed_extensions |-> {}], e.ext)

\* C18: the command exits with 1 exactly when the scan completed and a
\* match is left after the confidence filter, with 0 when it completed
\* with no match left, and with a code other than 0 and 1 on a fatal error.
C18_ExitCodes ==
    call.fn = "Scan" /\ call.pc = "exited" =>
        LET fatal == \/ call.directory # "dir"
                     \/ call.format # "Terminal" /\ call.write_fails
        IN  /\ call.exit_code = 1 <=> (~fatal /\ call.total_matches > 0)
            /\ ~fatal /\ call.total_matches = 0 => call.exit_code = 0
            /\ fatal => call.exit_code \notin {0, 1}

\* ============================================ environment-variable expansion
\* expand_env_string of config.rs, one action per turn of its while loop.
\* A string is a sequence of characters.
MaxPieces == 3         \* pieces an input string is put together from

\* std::env::var in the environment of the model: A is set, every other
\* name (B among them) is not.  A set of at most one value, as a Result.
env_var(var_name) == IF var_name = <<"A">> THEN {<<"v">>} ELSE {}

\* str::find for a pattern of one or two characters at or after from:
\* the set of at most one index (1-based)
str_find(s, pat, from) ==
    LET hits == {i \in from..(Len(s) - Len(pat) + 1) :
                    SubSeq(s, i, i + Len(pat) - 1) = pat}
    IN  IF hits = {} THEN {} ELSE {CHOOSE i \in hits : \A j \in hits : i <= j}

ExpandPieces == {<<"x">>, <<"$">>, <<"}">>, <<"$", "{", "A", "}">>, <<"$", "{", "B", "}">>}

RECURSIVE ExpandInputs(_)
ExpandInputs(n) ==
    IF n = 0 THEN {<<>>}
    ELSE LET shorter == ExpandInputs(n - 1)
         IN  shorter \cup {s \o p : s \in shorter, p \in ExpandPieces}

InitExpand ==
    /\ EngineIdle
    /\ call \in {[fn |-> "expand_env_string", pc |-> "while", arg |-> s, result |-> s,
                   turn |-> 0] : s \in ExpandInputs(MaxPieces)}

\* config.rs 369-377: a turn of the loop that finds "${" and a '}' after it
\* replaces the range by the value of the variable, or by "${name}" again
\* when the variable is not set.  turn is the parity of the turns taken.
ExpandReplace ==
    /\ call.fn = "expand_env_string" /\ call.pc = "while"
    /\ \E start \in str_find(call.result, <<"$", "{">>, 1) :
         \E end \in str_find(call.result, <<"}">>, start) :
            LET var_name == SubSeq(call.result, start + 2, end - 1)
                replacement ==
                    IF env_var(var_name) # {}
                    THEN CHOOSE v \in env_var(var_name) : TRUE
                    ELSE <<"$", "{">> \o var_name \o <<"}">>
            IN  call' = [call EXCEPT
                           !.turn = 1 - @,
                           !.result = SubSeq(call.result, 1, start - 1)
                                      \o replacement
                                      \o SubSeq(call.result, end + 1, Len(call.result))]
    /\ UNCHANGED scanVars

\* config.rs 369, 377-380: no "${" left, or no '}' after it: result returned
ExpandReturn ==
    /\ call.fn = "expand_env_string" /\ call.pc = "while"
    /\ \A start \in str_find(call.result, <<"$", "{">>, 1) :
          str_find(call.result, <<"}">>, start) = {}
    /\ call' = [call EXCEPT !.pc = "returned"]
    /\ UNCHANGED scanVars

NextExpand == ExpandReplace \/ ExpandReturn

\* the loop runs on as long as it can
SpecExpand == InitExpand /\ [][NextExpand]_vars /\ WF_vars(NextExpand)

\* s from index i on, with each ${VAR} of a set variable replaced by its
\* value and every other character kept
RECURSIVE ExpandedFrom(_, _)
ExpandedFrom(s, i) ==
    LET start == str_find(s, <<"$", "{">>, i)
        end   == UNION {str_find(s, <<"}">>, b) : b \in start}
    IN  IF end = {} THEN SubSeq(s, i, Len(s))
        ELSE LET b == CHOOSE x \in start : TRUE
                 e == CHOOSE x \in end : TRUE
                 var_name == SubSeq(s, b + 2, e - 1)
             IN  SubSeq(s, i, b - 1)
                 \o (IF env_var(var_name) # {}
                     THEN CHOOSE v \in env_var(var_name) : TRUE
                     ELSE SubSeq(s, b, e))
                 \o ExpandedFrom(s, e + 1)

\* C19: for every input string, expansion returns, and the string returned
\* has each ${VAR} of a set variable replaced by its value and each ${VAR}
\* of a variable that is not set left as it was.
C19_ExpansionReturns ==
    <>(/\ call.fn = "expand_env_string" /\ call.pc = "returned"
       /\ call.result = ExpandedFrom(call.arg, 1))

\* ===================================================== the registry factories
\* default_registry and registry_for_countries of lib.rs.  A detector is
\* its id and its country; a registry is the sequence of its detectors.
MaxCountries == 3      \* country codes given to a factory

\* Detector::id and Detector::country of the detectors of src/detectors
DetectorCountry ==
    [be_rrn |-> "be",
     finnish_hetu |-> "fi",
     fr_nir |-> "fr",
     de_steuer_id |-> "de",
     it_codice_fiscale |-> "it",
     norwegian_fodselsnummer |-> "no",
     polish_pesel |-> "pl",
     pt_nif |-> "pt",
     es_dni |-> "es",
     es_nie |-> "es",
     swedish_personnummer |-> "se",
     gb_nhs |-> "gb",
     iban |-> "universal",
     creditcard |-> "universal",
     danish_cpr |-> "dk",
     nl_bsn |-> "nl",
     email |-> "universal",
     api_key |-> "universal"]

\* the detector with an id, as a registry holds it
DetectorOf(id) == [id |-> id, country |-> DetectorCountry[id]]

\* DetectorRegistry::register
register(detectors, detector) == Append(detectors, detector)

default_registry ==
    <<DetectorOf("be_rrn"), DetectorOf("danish_cpr"), DetectorOf("finnish_hetu"), DetectorOf("fr_nir"), DetectorOf("de_steuer_id"),
      DetectorOf("it_codice_fiscale"), DetectorOf("nl_bsn"), DetectorOf("norwegian_fodselsnummer"), DetectorOf("polish_pesel"),
      DetectorOf("pt_nif"), DetectorOf("es_dni"), DetectorOf("es_nie"), DetectorOf("swedish_personnummer"), DetectorOf("gb_nhs"),
      DetectorOf("iban"), DetectorOf("creditcard"), DetectorOf("email"), DetectorOf("api_key")>>

\* registry_for_countries: the blocks of lib.rs in their order, each block
\* the country it asks for and the detectors it registers
registry_for_countries(countries) ==
    LET should_include(country) == country = "universal" \/ country \in countries
        blocks == <<
            <<"be", <<DetectorOf("be_rrn")>>>>, <<"dk", <<DetectorOf("danish_cpr")>>>>,
            <<"fi", <<DetectorOf("finnish_hetu")>>>>, <<"fr", <<DetectorOf("fr_nir")>>>>,
            <<"de", <<DetectorOf("de_steuer_id")>>>>, <<"it", <<DetectorOf("it_codice_fiscale")>>>>,
            <<"nl", <<DetectorOf("nl_bsn")>>>>, <<"no", <<DetectorOf("norwegian_fodselsnummer")>>>>,
            <<"pl", <<DetectorOf("polish_pesel")>>>>, <<"pt", <<DetectorOf("pt_nif")>>>>,
            <<"es", <<DetectorOf("es_dni"), DetectorOf("es_nie")>>>>,
            <<"se", <<DetectorOf("swedish_personnummer")>>>>, <<"gb", <<DetectorOf("gb_nhs")>>>>,
            <<"pt", <<DetectorOf("pt_nif")>>>>,
            <<"universal", <<DetectorOf("iban"), DetectorOf("creditcard"), DetectorOf("email"),
                             DetectorOf("api_key")>>>> >>
        RECURSIVE registerAll(_, _)
        registerAll(detectors, block) ==
            IF block = <<>> THEN detectors
            ELSE registerAll(register(detectors, Head(block)), Tail(block))
        RECURSIVE run(_, _)
        run(detectors, n) ==
            IF n > Len(blocks) THEN detectors
            ELSE run(IF should_include(blocks[n][1])
                     THEN registerAll(detectors, blocks[n][2])
                     ELSE detectors, n + 1)
    IN  run(<<>>, 1)

\* DetectorRegistry::for_countries
for_countries(detectors, countries) ==
    SelectSeq(detectors, LAMBDA d : d.country \in countries \/ d.country = "universal")

\* the country codes a caller may give: those of the detectors, one of no
\* detector, and "universal" itself
CountryCodes ==
    {default_registry[k].country : k \in 1..Len(default_registry)} \cup {"xx"}

CountrySets == {S \in SUBSET CountryCodes : Cardinality(S) <= MaxCountries}

CallRegistryForCountries ==
    /\ call = NoCall
    /\ \E S \in CountrySets :
         call' = [fn |-> "registry_for_countries", arg |-> S,
                  ret |-> registry_for_countries(S)]
    /\ UNCHANGED scanVars

CallForCountries ==
    /\ call = NoCall
    /\ \E S \in CountrySets :
         call' = [fn |-> "for_countries", arg |-> S,
                  ret |-> for_countries(default_registry, S)]
    /\ UNCHANGED scanVars

NextRegistry == CallRegistryForCountries \/ CallForCountries

SpecRegistry == InitCall /\ [][NextRegistry]_vars

\* C20: registry_for_countries(S) holds exactly the detectors of
\* default_registry() whose country is in S or universal, and each of them
\* once: no detector id is in the registry twice.
C20_RegistryForCountriesExact ==
    call.fn = "registry_for_countries" =>
        /\ {call.ret[k] : k \in 1..Len(call.ret)}
             = {d \in {default_registry[k] : k \in 1..Len(default_registry)} :
                  d.country \in call.arg \/ d.country = "universal"}
        /\ \A j, k \in 1..Len(call.ret) : call.ret[j].id = call.ret[k].id => j = k

\* ========================================================= adapter scans
\* scan_database of the PostgreSQL and MongoDB scanners, and
\* scan_api_endpoints, each called on its own.
MaxTables == 3         \* tables or collections of a database

\* The tables (collections) of the database: whether the query for the
\* columns (the find of the collection) succeeds, the columns left by the
\* column filter, and per row either the matches the detectors find in
\* it or a fetch error
Tables ==
    [t \in {"users", "orders", "logs", "audit"} |->
      CASE t = "users" ->
             [query |-> [ok |-> TRUE], columns |-> 2,
              rows |-> <<[ok |-> TRUE, matches |-> <<"High">>],
                         [ok |-> TRUE, matches |-> <<>>]>>]
        [] t = "orders" ->
             [query |-> [ok |-> FALSE, msg |-> "Failed to query orders"],
              columns |-> 1, rows |-> <<>>]
        [] t = "logs" ->
             [query |-> [ok |-> TRUE], columns |-> 1,
              rows |-> <<[ok |-> TRUE, matches |-> <<"Low">>],
                         [ok |-> FALSE, msg |-> "Failed to fetch row"]>>]
        [] OTHER ->
             [query |-> [ok |-> TRUE], columns |-> 0,
              rows |-> <<[ok |-> TRUE, matches |-> <<"Medium">>]>>]]

\* TableScanResult::new
TableScanResult_new(name) ==
    [name |-> name, rows_scanned |-> 0, matches_found |-> 0, matches |-> <<>>]

RECURSIVE scan_rows(_, _, _)
\* the while loop over the rows (documents) from row n on: the first row
\* that cannot be fetched ends the scan of the table with its error
scan_rows(result, rows, n) ==
    IF n > Len(rows)
    THEN [ok |-> TRUE,
          result |-> [result EXCEPT !.rows_scanned = Len(rows),
                                    !.matches_found = Len(result.matches)]]
    ELSE IF ~rows[n].ok
         THEN [ok |-> FALSE, msg |-> rows[n].msg]
         ELSE scan_rows([result EXCEPT !.matches = @ \o rows[n].matches], rows, n + 1)

\* PostgresScanner::scan_table
scan_table(table) ==
    LET result == TableScanResult_new(table)
    IN  IF ~Tables[table].query.ok
        THEN [ok |-> FALSE, msg |-> Tables[table].query.msg]
        ELSE IF Tables[table].columns = 0
             THEN [ok |-> TRUE, result |-> result]
             ELSE scan_rows(result, Tables[table].rows, 1)

\* MongoScanner::scan_collection
scan_collection(collection) ==
    LET result == TableScanResult_new(collection)
    IN  IF ~Tables[collection].query.ok
        THEN [ok |-> FALSE, msg |-> Tables[collection].query.msg]
        ELSE scan_rows(result, Tables[collection].rows, 1)

RECURSIVE scan_database(_, _, _, _)
\* scan_database of the scanner of a kind, the loop from table n on with
\* the results so far: `scan_table(..).await?` returns the first error
scan_database(kind, tables, n, scanned) ==
    IF n > Len(tables)
    THEN [ok |-> TRUE, results |-> scanned]
    ELSE LET result == IF kind = "postgres" THEN scan_table(tables[n])
                       ELSE scan_collection(tables[n])
         IN  IF ~result.ok
             THEN [ok |-> FALSE, msg |-> result.msg]
             ELSE scan_database(kind, tables, n + 1, Append(scanned, result.result))

CallScanDatabase(kind) ==
    /\ call = NoCall
    /\ \E n \in 0..MaxTables : \E tables \in [1..n -> DOMAIN Tables] :
         call' = [fn |-> "scan_database", arg |-> [kind |-> kind, tables |-> tables],
                  ret |-> scan_database(kind, tables, 1, <<>>)]
    /\ UNCHANGED scanVars

CallScanApiEndpoints ==
    /\ call = NoCall
    /\ \E n \in 0..MaxEndpoints : \E endpoints \in [1..n -> Urls] :
         \E c \in Confidences :
            call' = [fn |-> "scan_api_endpoints",
                     arg |-> [endpoints |-> endpoints, min_confidence |-> c],
                     ret |-> scan_api_endpoints(endpoints, c)]
    /\ UNCHANGED scanVars

NextAdapters ==
    \/ \E kind \in {"postgres", "mongodb"} : CallScanDatabase(kind)
    \/ CallScanApiEndpoints

SpecAdapters == InitCall /\ [][NextAdapters]_vars

\* C17: an endpoint, table or collection that fails during an adapter scan
\* is in the results as an entry with error set and no matches, and every
\* other endpoint, table or collection of the scan has its result returned.
C17_AdapterFailureSurfaced ==
    /\ call.fn = "scan_api_endpoints" =>
          /\ Len(call.ret.files) = Len(call.arg.endpoints)
          /\ \A k \in 1..Len(call.arg.endpoints) :
                LET entry == call.ret.files[k]
                IN  /\ entry.path = call.arg.endpoints[k]
                    /\ IF Endpoints[call.arg.endpoints[k]].response.ok
                       THEN ~entry.error.some
                       ELSE entry.error.some /\ entry.matches = <<>>
    /\ call.fn = "scan_database" =>
          /\ call.ret.ok
          /\ Len(call.ret.results) = Len(call.arg.tables)
          /\ \A k \in 1..Len(call.arg.tables) :
                LET entry == call.ret.results[k]
                    alone == scan_database(call.arg.kind, <<call.arg.tables[k]>>, 1, <<>>)
                IN  /\ entry.name = call.arg.tables[k]
                    /\ IF alone.ok
                       THEN entry = alone.results[1]
                       ELSE /\ "error" \in DOMAIN entry
                            /\ entry.matches = <<>>

\* ------------------------------------------------- scheduling of the workers
\* the paths of files scanned one after another, from path n on: the
\* FileResults in the order of the paths
RECURSIVE scan_one_after_another(_, _)
scan_one_after_another(paths, n) ==
    IF n > Len(paths) THEN <<>>
    ELSE <<scan_file(paths[n])>> \o scan_one_after_another(paths, n + 1)

\* C21: the ScanResults scan_directory returns are, for every schedule of
\* the workers, those of scanning the same paths one after another: the
\* FileResults, total_matches, by_severity, by_country, extracted_files and
\* extraction_failures are equal (the wall-clock total time apart).
C21_ScheduleIndependent ==
    mainpc = "done" /\ lastOp = "scan_directory" =>
        LET collected == scan_one_after_another(files, 1)
            extracted == Cardinality({i \in 1..Len(files) : will_extract(files[i])})
            failures == Cardinality({i \in 1..Len(files) :
                                        is_extraction_failure(collected[i])})
        IN  results = finish_scan(collected, results.total_time_ms, extracted, failures)

\* a scan of two files, one extracted and failing, one with matches, has
\* returned
C21_Witness ==
    /\ mainpc = "done" /\ lastOp = "scan_directory"
    /\ Len(files) >= 2
    /\ results.extraction_failures >= 1
    /\ results.total_matches >= 1

\* C22: at every point of a directory scan failure_count is at most
\* extracted_count, and the ScanResults returned have
\* extraction_failures <= extracted_files <= total_files.
C22_FailuresWithinExtracted ==
    /\ mainpc \in {"scanning", "panicked"} => failure_count <= extracted_count
    /\ mainpc = "done" /\ lastOp = "scan_directory" =>
          /\ results.extraction_failures <= results.extracted_files
          /\ results.extracted_files <= results.total_files

\* a worker has counted a failure while another worker has not yet
\* counted its file
C22_Witness ==
    /\ mainpc = "scanning"
    /\ failure_count >= 1
    /\ \E i \in 1..Len(files) : taskpc[i] = "count" /\ will_extract(files[i])

\* C24: for every Match a built-in detector emits, start_byte and end_byte
\* are offsets from the start of the text: start_byte < end_byte <= len(text)
\* and the bytes text[start_byte..end_byte] are the matched string (the
\* one at the line and column of the Match).
C24_OffsetsLocateMatch ==
    call.fn \in {"BsnDetector::detect", "CprDetector::detect", "EmailDetector::detect"} =>
        \A k \in 1..Len(call.ret) :
           LET location == call.ret[k].location
           IN  /\ location.start_byte < location.end_byte
               /\ location.end_byte <= Len(call.arg)
               /\ Slice(call.arg, location.start_byte, location.end_byte)
                    = RawValue(call.arg, call.ret[k])

\* C23: for every match of a built-in detector the context analysis of
\* scan_file completes: its window lies inside the text, around the match,
\* and starts and ends on character boundaries.
C23_ContextWindowValid ==
    call.fn = "ContextAnalyzer::analyze" =>
        \A k \in 1..Len(call.matches) :
           LET start_byte == call.matches[k].location.start_byte
               end_byte == call.matches[k].location.end_byte
               window_start == saturating_sub(start_byte, window_size)
               window_end == Min(end_byte + window_size, Len(call.arg))
           IN  /\ call.ret[k].type # "Panic"
               /\ 0 <= window_start /\ window_start <= start_byte
               /\ start_byte <= end_byte /\ end_byte <= window_end
               /\ window_end <= Len(call.arg)
               /\ \A i \in {window_start, start_byte, end_byte, window_end} :
                     is_char_boundary(call.arg, i)

\* C25: analyze returns none exactly when no keyword of any category is in
\* the lower-cased window; otherwise the category is the last of Medical,
\* Biometric, Genetic, Criminal with a hit, and keywords holds every hit of
\* every category.
C25_LastCategoryWins ==
    call.fn = "analyze" =>
        LET text == call.arg.text
            window == to_lowercase(
                Slice(text, saturating_sub(call.arg.match_start, window_size),
                      call.arg.match_start)
                \o Slice(text, call.arg.match_end,
                         Min(call.arg.match_end + window_size, Len(text))))
            lists == <<MEDICAL_KEYWORDS_ALL, BIOMETRIC_KEYWORDS, GENETIC_KEYWORDS,
                       CRIMINAL_KEYWORDS>>
            names == <<"Medical", "Biometric", "Genetic", "Criminal">>
            hits(c) == {k \in 1..Len(lists[c]) :
                          contains(window, to_lowercase(lists[c][k]))}
            hit == {c \in 1..4 : hits(c) # {}}
        IN  /\ call.ret.type \in {"None", "Some"}
            /\ call.ret.type = "None" <=> hit = {}
            /\ call.ret.type = "Some" =>
                  /\ \E c \in hit : /\ \A d \in hit : d <= c
                                    /\ call.ret.category = names[c]
                  /\ \A c \in hit : \A k \in hits(c) :
                        \E j \in 1..Len(call.ret.keywords) :
                            call.ret.keywords[j] = lists[c][k]
                  /\ Len(call.ret.keywords)
                       = Cardinality(hits(1)) + Cardinality(hits(2))
                         + Cardinality(hits(3)) + Cardinality(hits(4))

\* C25 witness: keywords of two categories are in the window, and a
\* criminal keyword stands before the window: the category is the later
\* of the two in the window
C25_Witness ==
    /\ call.fn = "analyze"
    /\ call.ret.type = "Some"
    /\ call.ret.category = "Biometric"
    /\ Len(call.ret.keywords) = 2
    /\ contains(call.arg.text, <<"j", "a", "i", "l">>)

\* ================================================== checksum validators
\* The validators of utils/checksum.rs and of the detectors, each called
\* on its own on strings of digits.

\* the digit values of the ASCII digits of a string
digits_of(s) ==
    LET ds == SelectSeq(s, is_ascii_digit)
    IN  [k \in 1..Len(ds) |-> to_digit(ds[k])]

\* validate_steuer_id, the product/sum loop over the first 10 digits from
\* digit n on: the value of m after it
RECURSIVE steuer_id_m(_, _, _)
steuer_id_m(digits, n, m) ==
    IF n > 10 THEN m
    ELSE LET s == (digits[n] + m) % 10
         IN  steuer_id_m(digits, n + 1, ((IF s = 0 THEN 10 ELSE s) * 2) % 11)

\* validate_steuer_id
validate_steuer_id(id) ==
    LET digits == digits_of(id)
        freq == [d \in 0..9 |-> Cardinality({k \in 1..10 : digits[k] = d})]
        has_repeated_digit == \E d \in 0..9 : freq[d] = 2 \/ freq[d] = 3
        calculated_check == (11 - steuer_id_m(digits, 1, 10)) % 10
    IN  /\ Len(digits) = 11
        /\ ~(\A k \in 1..11 : digits[k] = digits[1])
        /\ has_repeated_digit
        /\ calculated_check = digits[11]

\* identifiers of six free digits, 4567 and a check digit
CallValidateSteuerId ==
    /\ call = NoCall
    /\ \E head \in [1..6 -> FreeDigits] : \E check \in {DigitChars[k] : k \in 1..10} :
         LET id == head \o <<"4", "5", "6", "7">> \o <<check>>
         IN  call' = [fn |-> "validate_steuer_id", arg |-> id,
                      ret |-> validate_steuer_id(id)]
    /\ UNCHANGED scanVars

\* char::is_ascii_uppercase
is_ascii_uppercase(c) == \E k \in 1..26 : UpperChars[k] = c

\* validate_iban, the digits the rearranged IBAN is written with: a letter
\* as the two digits of 10..35, a digit as itself, any other byte as "X"
\* (written -1)
iban_numeric(rearranged) ==
    LET digits_for(c) ==
            IF is_ascii_uppercase(c)
            THEN LET v == (CHOOSE k \in 1..26 : UpperChars[k] = c) - 1 + 10
                 IN  <<v \div 10, v % 10>>
            ELSE IF is_ascii_digit(c) THEN <<to_digit(c)>> ELSE <<-1>>
        RECURSIVE build(_)
        build(n) == IF n > Len(rearranged) THEN <<>>
                    ELSE digits_for(rearranged[n]) \o build(n + 1)
    IN  build(1)

RECURSIVE iban_remainder_mod_10(_, _, _)
\* the remainder taken modulo 10
iban_remainder_mod_10(numeric, n, acc) ==
    IF n > Len(numeric) THEN acc
    ELSE iban_remainder_mod_10(numeric, n + 1, (acc * 10 + numeric[n]) % 10)

RECURSIVE iban_remainder(_, _, _)
\* validate_iban, the fold over the digits from digit n on
iban_remainder(numeric, n, acc) ==
    IF n > Len(numeric) THEN acc
    ELSE iban_remainder(numeric, n + 1, (acc * 10 + numeric[n]) % 97)

\* validate_iban
validate_iban(iban) ==
    LET iban_clean == SelectSeq(iban, LAMBDA c : ~is_whitespace(c))
        rearranged == Slice(iban_clean, 4, Len(iban_clean)) \o Slice(iban_clean, 0, 4)
        numeric == iban_numeric(rearranged)
    IN  /\ ~(Len(iban_clean) < 15 \/ Len(iban_clean) > 34)
        /\ is_ascii_uppercase(iban_clean[1])
        /\ is_ascii_uppercase(iban_clean[2])
        /\ is_ascii_digit(iban_clean[3])
        /\ is_ascii_digit(iban_clean[4])
        /\ \A k \in 1..Len(numeric) : numeric[k] # -1
        /\ iban_remainder(numeric, 1, 0) = 1

\* the IBANs of the tests of checksum.rs, one of them with spaces, and
\* NL..ABNA04171643.. with every pair of check digits and free last digits
IbanInputs ==
    {<<"N", "L", "2", "0", "I", "N", "G", "B", "0", "0", "0", "1", "2", "3",
       "4", "5", "6", "7">>,
     <<"B", "E", "6", "8", "5", "3", "9", "0", "0", "7", "5", "4", "7", "0",
       "3", "4">>,
     <<"D", "E", "8", "9", " ", "3", "7", "0", "4", " ", "0", "0", "4", "4", " ",
       "0", "5", "3", "2", " ", "0", "1", "3", "0", " ", "0", "0">>}
    \cup {<<"N", "L", c1, c2, "A", "B", "N", "A", "0", "4", "1", "7", "1", "6",
            "4", "3", d1, d2>> :
            c1 \in {DigitChars[k] : k \in 1..10},
            c2 \in {DigitChars[k] : k \in 1..10},
            d1 \in FreeDigits, d2 \in FreeDigits}

CallValidateIban ==
    /\ call = NoCall
    /\ \E iban \in IbanInputs :
         call' = [fn |-> "validate_iban", arg |-> iban, replaced |-> FALSE,
                  ret |-> validate_iban(iban)]
    /\ UNCHANGED scanVars

\* validate_iban called again on an accepted IBAN with one of its digits
\* replaced by another digit
CallValidateIbanReplaced ==
    /\ call.fn = "validate_iban" /\ ~call.replaced /\ call.ret
    /\ \E p \in 1..Len(call.arg) : \E d \in {DigitChars[k] : k \in 1..10} :
         /\ is_ascii_digit(call.arg[p])
         /\ d # call.arg[p]
         /\ LET iban == [call.arg EXCEPT ![p] = d]
            IN  call' = [fn |-> "validate_iban", arg |-> iban, replaced |-> TRUE,
                         ret |-> validate_iban(iban)]
    /\ UNCHANGED scanVars

\* validate_luhn: 13 to 19 digits; from the right, every second digit is
\* doubled (minus 9 above 9); the sum is a multiple of 10
validate_luhn(number) ==
    LET digits == digits_of(number)
        len == Len(digits)
        term(index) ==
            LET digit == digits[len - index]
            IN  IF index % 2 = 1
                THEN IF digit * 2 > 9 THEN digit * 2 - 9 ELSE digit * 2
                ELSE digit
    IN  /\ ~(len < 13 \/ len > 19)
        /\ Sum([k \in 1..len |-> term(k - 1)]) % 10 = 0

\* VISA_PATTERN, MASTERCARD_PATTERN, AMEX_PATTERN, GENERIC_CARD_PATTERN, in
\* the order detect tries them; \d{1,7} is a digit and six optional digits
CARD_PATTERNS ==
    LET One(class) == [class |-> class, optional |-> FALSE]
        DigitOpt == [class |-> Digit.class, optional |-> TRUE]
        Group4 == <<SepOpt, Digit, Digit, Digit, Digit>>
    IN  << <<One({"4"}), Digit, Digit, Digit>> \o Group4 \o Group4 \o Group4,
           <<One({"5"}), One({"1", "2", "3", "4", "5"}), Digit, Digit>>
               \o Group4 \o Group4 \o Group4,
           <<One({"3"}), One({"4", "7"}), Digit, Digit, SepOpt,
             Digit, Digit, Digit, Digit, Digit, Digit, SepOpt,
             Digit, Digit, Digit, Digit, Digit>>,
           <<Digit, Digit, Digit, Digit>> \o Group4 \o Group4
               \o <<SepOpt, Digit, DigitOpt, DigitOpt, DigitOpt, DigitOpt, DigitOpt,
                    DigitOpt>> >>

\* CreditCardDetector::detect_card_type
detect_card_type(digits) ==
    IF StartsWith(digits, <<"4">>)
    THEN "Visa"
    ELSE IF StartsWith(digits, <<"5">>) /\ Len(digits) >= 2
         THEN IF digits[2] \in {"1", "2", "3", "4", "5"} THEN "Mastercard" ELSE "Unknown"
         ELSE IF StartsWith(digits, <<"3", "4">>) \/ StartsWith(digits, <<"3", "7">>)
              THEN "American Express"
              ELSE "Unknown"

\* CreditCardDetector::detect: per line every pattern in turn, a Match for
\* each capture whose digits pass validate_luhn; then the stable sort by
\* start_byte and the removal of repeated start_bytes
CreditCardDetector_detect(text) ==
    LET ls == lines(text)
        byte_offset(n) == Sum([j \in 1..(n - 1) |-> Len(ls[j]) + 1])
        of_capture(n, capture) ==
            LET digits == SelectSeq(Slice(ls[n], capture[1], capture[2]), is_ascii_digit)
            IN  IF validate_luhn(digits)
                THEN <<[detector_id |-> "creditcard",
                        detector_name |-> <<"Credit Card Number", " (",
                                            detect_card_type(digits), ")">>,
                        country |-> "universal",
                        value_masked |-> mask_credit_card(digits),
                        location |-> [file_path |-> "",
                                      line |-> n,
                                      column |-> capture[1],
                                      start_byte |-> byte_offset(n) + capture[1],
                                      end_byte |-> byte_offset(n) + capture[2]],
                        confidence |-> "High",
                        severity |-> "High",
                        context |-> NoContext,
                        gdpr_category |-> Regular]>>
                ELSE <<>>
        of_pattern(n, p) ==
            LET found == find_iter(CARD_PATTERNS[p], ls[n], 0)
            IN  [matches |-> AllMatches([k \in 1..Len(found) |->
                                            [matches |-> of_capture(n, found[k])]])]
        of_line(n) == [matches |-> AllMatches([p \in 1..4 |-> of_pattern(n, p)])]
        pushed == AllMatches([n \in 1..Len(ls) |-> of_line(n)])
        key(k) == pushed[k].location.start_byte
        \* the place of pushed[k] after the stable sort
        rank(k) == Cardinality({j \in 1..Len(pushed) :
                                  key(j) < key(k) \/ (key(j) = key(k) /\ j < k)}) + 1
        sorted == [r \in 1..Len(pushed) |->
                     pushed[CHOOSE k \in 1..Len(pushed) : rank(k) = r]]
        first(r) == r = 1 \/ sorted[r].location.start_byte
                                # sorted[r - 1].location.start_byte
        kept == {r \in 1..Len(sorted) : first(r)}
    IN  [i \in 1..Cardinality(kept) |->
           sorted[CHOOSE r \in kept : Cardinality({q \in kept : q <= r}) = i]]

\* card numbers: the first four digits of a family or next to one, zeros,
\* free digits and a last digit, the groups of four joined or spaced
CardNumbers ==
    LET zeros(n) == Rep(n, "0")
        sixteen == {first \o sep \o zeros(4) \o sep \o zeros(4) \o sep \o <<"0", d1, d2, c>> :
                      first \in {<<"4", "5", "3", "2">>, <<"5", "1", "0", "5">>,
                                 <<"5", "6", "1", "0">>, <<"2", "2", "2", "1">>,
                                 <<"2", "7", "2", "0">>, <<"2", "2", "2", "0">>,
                                 <<"2", "7", "2", "1">>},
                      sep \in {<<>>, <<" ">>},
                      d1 \in FreeDigits, d2 \in FreeDigits,
                      c \in {DigitChars[k] : k \in 1..10}}
        fifteen == {first \o sep \o zeros(6) \o sep \o <<"0", "0", d1, d2, c>> :
                      first \in {<<"3", "4", "0", "0">>, <<"3", "7", "0", "0">>},
                      sep \in {<<>>, <<"-">>},
                      d1 \in FreeDigits, d2 \in FreeDigits,
                      c \in {DigitChars[k] : k \in 1..10}}
    IN  sixteen \cup fifteen

CallCreditCardDetect ==
    /\ call = NoCall
    /\ \E number \in CardNumbers :
         call' = [fn |-> "CreditCardDetector::detect", arg |-> number,
                  ret |-> CreditCardDetector_detect(number)]
    /\ UNCHANGED scanVars

\* the check characters with Q among them and V left out
CHECK_CHARS_without_V ==
    <<"0", "1", "2", "3", "4", "5", "6", "7", "8", "9", "A", "B", "C", "D", "E",
      "F", "H", "J", "K", "L", "M", "N", "P", "Q", "R", "S", "T", "U", "W", "X", "Y">>

\* hetu.rs CHECK_CHARS: the 31 check characters, as the array lists them
CHECK_CHARS ==
    <<"0", "1", "2", "3", "4", "5", "6", "7", "8", "9", "A", "B", "C", "D", "E",
      "F", "H", "J", "K", "L", "M", "N", "P", "R", "S", "T", "U", "V", "W", "X", "Y">>

\* HetuDetector::validate_hetu: 11 bytes, the six characters of the date and
\* the three of the individual number parsed together as a u32 (str::parse
\* takes an optional leading "+" and then digits only), the remainder mod 31
\* indexes CHECK_CHARS
validate_hetu(hetu) ==
    IF Len(hetu) # 11 THEN FALSE
    ELSE LET combined == SubSeq(hetu, 1, 6) \o SubSeq(hetu, 8, 10)
             ds == IF combined[1] = "+" THEN Tail(combined) ELSE combined
             parsed == \A k \in 1..Len(ds) : is_ascii_digit(ds[k])
             value[k \in 0..Len(ds)] ==
                 IF k = 0 THEN 0 ELSE value[k - 1] * 10 + to_digit(ds[k])
         IN  IF ~parsed THEN FALSE
             ELSE LET number == value[Len(ds)]
                      index == number % 31
                      expected_check == CHECK_CHARS[index + 1]
                  IN  hetu[11] = expected_check

\* validate_hetu called alone (hetu.rs tests): the dates of the tests, each
\* century marker, an individual number that runs through every remainder
\* mod 31, and every check character and letter A-Y; one identifier too
\* short and one with a letter in its date
CallValidateHetu ==
    /\ call = NoCall
    /\ \/ \E date \in {<<"1", "3", "1", "0", "5", "2">>, <<"0", "1", "0", "1", "0", "1">>} :
          \E marker \in {"+", "-", "A"} :
          \E d2 \in FreeDigits : \E d3 \in {DigitChars[k] : k \in 1..10} :
          \E check \in {DigitChars[k] : k \in 1..10} \cup {UpperChars[k] : k \in 1..25} :
            LET hetu == date \o <<marker, "3", d2, d3, check>>
            IN  call' = [fn |-> "validate_hetu", arg |-> hetu,
                         ret |-> validate_hetu(hetu)]
       \/ \E hetu \in {<<"1", "3", "1", "0", "5", "2", "-", "3", "0", "8">>,
                       <<"1", "3", "1", "0", "5", "X", "-", "3", "0", "8", "T">>} :
            call' = [fn |-> "validate_hetu", arg |-> hetu,
                     ret |-> validate_hetu(hetu)]
    /\ UNCHANGED scanVars

\* PersonnummerDetector::extract_validation_digits: the hyphens removed;
\* of 12 bytes the last 10, 10 bytes as they are, otherwise None (<<>>)
extract_validation_digits(personnummer) ==
    LET normalized == SelectSeq(personnummer, LAMBDA c : c # "-")
    IN  IF Len(normalized) = 12 THEN SubSeq(normalized, 3, 12)
        ELSE IF Len(normalized) = 10 THEN normalized
        ELSE <<>>

\* PersonnummerDetector::validate_personnummer: the inline sum over the 10
\* digits reversed, doubling (minus 9 above 9) at the even indices, the
\* rightmost digit first
validate_personnummer(personnummer) ==
    LET digits_str == extract_validation_digits(personnummer)
        digits == digits_of(digits_str)
        term(index) ==
            LET digit == digits[Len(digits) - index]
            IN  IF index % 2 = 0
                THEN IF digit * 2 > 9 THEN digit * 2 - 9 ELSE digit * 2
                ELSE digit
    IN  IF digits_str = <<>> THEN FALSE
        ELSE IF Len(digits) # 10 THEN FALSE
        ELSE Sum([k \in 1..10 |-> term(k - 1)]) % 10 = 0

\* validate_personnummer called alone (personnummer.rs tests): births on
\* 900101 and 811228, written with 10 digits, with a hyphen, and with the
\* century in front; every check digit; one string of 9 digits
CallValidatePersonnummer ==
    /\ call = NoCall
    /\ \/ \E date \in {<<"9", "0", "0", "1", "0", "1">>, <<"8", "1", "1", "2", "2", "8">>} :
          \E century \in {<<>>, <<"1", "9">>} : \E hyphen \in {<<>>, <<"-">>} :
          \E s1 \in FreeDigits \cup {"9"} : \E s2 \in FreeDigits \cup {"8"} :
          \E c \in {DigitChars[k] : k \in 1..10} :
            LET personnummer == century \o date \o hyphen \o <<s1, s2, "7", c>>
            IN  call' = [fn |-> "validate_personnummer", arg |-> personnummer,
                         ret |-> validate_personnummer(personnummer)]
       \/ \E personnummer \in {<<"9", "0", "0", "1", "0", "1", "1", "0", "0">>} :
            call' = [fn |-> "validate_personnummer", arg |-> personnummer,
                     ret |-> validate_personnummer(personnummer)]
    /\ UNCHANGED scanVars

NextChecksum ==
    \/ CallValidateSteuerId
    \/ CallValidateIban \/ CallValidateIbanReplaced
    \/ CallCreditCardDetect
    \/ CallValidateHetu
    \/ CallValidatePersonnummer

SpecChecksum == InitCall /\ [][NextChecksum]_vars

\* C26: validate_steuer_id accepts an 11-digit number only if, over its
\* first 10 digits, exactly one digit value occurs 2 or 3 times and no digit
\* value occurs 4 or more times.
C26_SteuerIdOneRepeatedDigit ==
    call.fn = "validate_steuer_id" /\ call.ret =>
        LET digits == digits_of(call.arg)
            count(d) == Cardinality({k \in 1..10 : digits[k] = d})
        IN  /\ Cardinality({d \in 0..9 : count(d) \in {2, 3}}) = 1
            /\ \A d \in 0..9 : count(d) < 4

\* C27: an IBAN validate_iban accepts, with any one of its decimal digits
\* replaced by a different digit, is rejected by validate_iban.
C27_DigitReplacementRejected ==
    call.fn = "validate_iban" /\ call.replaced => ~call.ret

\* C27 witness: a check digit of an accepted IBAN with spaces has been
\* replaced and the result validated
C27_Witness ==
    /\ call.fn = "validate_iban" /\ call.replaced
    /\ call.arg[1] = "D" /\ call.arg[3] # "8"
    /\ ~call.ret

\* C28: for a Luhn-valid card number the credit-card detector emits a
\* Match whose name carries the family of the leading digits: Visa for 4,
\* Mastercard for 51-55 or 2221-2720, Amex (spelled out "American Express"
\* by the source) for 34 or 37.
C28_CardFamilyFromLeadingDigits ==
    call.fn = "CreditCardDetector::detect" =>
        LET digits == digits_of(call.arg)
            lead2 == digits[1] * 10 + digits[2]
            lead4 == lead2 * 100 + digits[3] * 10 + digits[4]
            family == IF digits[1] = 4 THEN {"Visa"}
                      ELSE IF lead2 \in 51..55 \/ lead4 \in 2221..2720
                           THEN {"Mastercard"}
                           ELSE IF lead2 \in {34, 37}
                                THEN {"Amex", "American Express"}
                                ELSE {}
        IN  validate_luhn(call.arg) /\ family # {} =>
               /\ Len(call.ret) >= 1
               /\ \A k \in 1..Len(call.ret) : call.ret[k].detector_name[3] \in family

C30_PersonnummerIsLuhn ==
    call.fn = "validate_personnummer"
        /\ Len(call.arg) = 10 /\ Len(digits_of(call.arg)) = 10 =>
        (call.ret <=> validate_luhn(<<"0", "0", "0">> \o call.arg))

====
